---------------------------- MODULE Spec2Model ----------------------------
(***************************************************************************)
(* Document-to-chunk pipeline of saas-api/cmd/docling:                     *)
(*   chunking.py          MarkdownChunker.process_markdown_file            *)
(*   document_process.py  chunk_document                                   *)
(*   doclingbackup.py     DocumentPipeline.process / process_batch         *)
(*   md_converter.py      convert_single_async / save_markdown_async       *)
(*                                                                         *)
(* A job is one call (one coroutine).  An action is the code a job runs    *)
(* on the event loop between two suspension points; a file operation that  *)
(* is awaited takes effect in the action that resumes after it.            *)
(***************************************************************************)
EXTENDS Integers, Sequences, FiniteSets, TLC

\* ------------------------------------------------------------------ bounds
NumSources == 3        \* jobs of one batch
MaxTables == 2         \* tables of one converted document
MaxTexts == 2          \* chunks yielded by HybridChunker for one document
MaxConcurrent == 2     \* largest max_concurrent tried
MaxImages == 2         \* embedded images of one markdown file
NumCallers == 2        \* threads that call the synchronous entry points
MaxCalls == 3          \* calls of conversion entry points in one run
MaxLines == 6          \* lines of a markdown text
MaxMarked == 2         \* its lines that are neither blank nor a table row
MaxRows == 4           \* rows of a table grid

Jobs == 1..NumSources

\* ------------------------------------------------------------------ state
VARIABLES
    entry,            \* job -> the function the job is a call of
    src,              \* job -> the input source: [ext, stem, readable, converts]
    pc,               \* job -> position of the coroutine
    running,          \* the job in the middle of a synchronous stretch (0: none)
    nTables,          \* job -> len(doc.tables) of the job's document
    nTexts,           \* job -> number of chunks chunker.chunk(doc) yields
    nImages,          \* job -> embedded images of the job's markdown
    clean,            \* job -> TRUE: no item of the document is skipped or raises
    table_idx,        \* job -> tables already visited by the table loop
    i,                \* job -> text chunks already visited by the chunk loop
    Index,            \* job -> Index / chunk_index local
    is_first_chunk,   \* job -> is_first_chunk local
    chunks,           \* job -> chunk_document's `chunks` list / OCR `data['chunks']`
    pos,              \* job -> offset of the job's open output handle
    isOpen,           \* job -> the job holds its output path open for writing
    ret,              \* job -> value returned by the chunking call (-1: none yet)
    errors,           \* job -> logger.error calls made by the chunking call
    warnings,         \* job -> logger.warning calls made for failed items
    skips,            \* job -> items passed over by a silent `continue`
    outPath,          \* job -> output_json_path of the call
    markdown_path,    \* job -> markdown_path local of process (NoPath: None)
    result,           \* job -> outcome returned by process (status "none": not yet)
    ocr,              \* the `ocr` argument
    keep_markdown,    \* the `keep_markdown` argument
    temp_dir,         \* TRUE while the directory self.temp_dir exists
    cleanup_temp,     \* self.cleanup_temp
    max_concurrent,   \* the max_concurrent argument
    semaphore,        \* the semaphore's free permits
    waiters,          \* tasks queued on the semaphore, oldest first
    file_locks,       \* paths whose entry of _file_locks is held
    data,             \* job -> `data` loaded by the OCR step: [name, id, chunks]
    completed,        \* the jobs that ended, in the order they ended
    results,          \* the list the batch call returned (<<>>: not returned)
    work,             \* engine work done so far: [job, kind, thread]
    converter_local,  \* the `converter` attributes of _converter_local: [slot, converter]
    engines,          \* the DocumentConverter instances built: [by, n, cfg]
    last,             \* the latest call of a conversion entry point and its outcome
    ncalls,           \* calls of conversion entry points made so far
    img,              \* image -> position of the image's OCR task
    recognized,       \* image -> what decode_and_ocr gave for the image
    ocr_results,      \* the list extract_and_ocr_images returned
    markdown_content, \* self.markdown_content, as the list of its lines
    table_data,       \* the table_data argument: rows of cells
    extracted,        \* what _extract_markdown_table_title_and_header returned
    section_titles,   \* the chunks emitted: [content_type, recovered, section_title]
    documents,        \* job -> the lines of the job's markdown file
    input_file,       \* the input of the call: where it is and what it holds
    temp_file,        \* the call's temp_file (chunk_document's downloaded copy), or NoPath
    temp_md_file,     \* chunk_document's temp_md_file (the .md copy), or NoPath
    failed,           \* the step of the call that failed, "" if none did
    raised,           \* TRUE when an exception left the call
    fs                \* the file system: path -> file content (token sequence)

chunkVars == <<nTables, nTexts, clean, table_idx, i, Index, is_first_chunk,
               chunks, pos, isOpen, ret, errors, warnings, skips>>
procVars == <<nImages, markdown_path, result, ocr, keep_markdown, temp_dir,
              cleanup_temp, file_locks, data>>
gateVars == <<max_concurrent, semaphore, waiters>>
batchVars == <<completed, results>>
syncVars == <<converter_local, engines, last, ncalls>>
ocrVars == <<img, recognized, ocr_results>>
titleVars == <<markdown_content, table_data, extracted, section_titles, documents>>
inputVars == <<input_file, temp_file, temp_md_file, failed, raised>>
engineVars == <<work, syncVars, ocrVars, titleVars, inputVars>>
vars == <<entry, src, pc, running, outPath, fs, chunkVars, procVars, gateVars,
          batchVars, engineVars>>

\* ------------------------------------------------------------------ files
\* A path is <<directory, stem, n>>.
NoPath == <<"", 0, 0>>
OutPath(stem) == <<"out", stem, 0>>          \* output_dir / "{stem}_chunks.json"
InPath(sr) == <<"in", sr.stem, IF sr.ext = "md" THEN 0 ELSE 1>>
TmpMd(stem, n) == <<"tmp", stem, n>>         \* temp_dir / "{stem}.md", "{stem}_{n}.md"

\* File content is a sequence of tokens.  k: token kind; idx: the "Index"
\* member of a chunk object (-1: the object has none); ctype: content_type;
\* n: number of the source item; d: the document (job) the text belongs to.
Tok(k, idx, ctype, n, d) == [k |-> k, idx |-> idx, ctype |-> ctype, n |-> n, d |-> d]
Punct(k, d) == Tok(k, -1, "", 0, d)
Hole == Tok("\\0", -1, "", 0, 0)

Exists(p) == p \in DOMAIN fs

\* open(p, 'w'): create or truncate.
OpenW(f, p) == [q \in (DOMAIN f) \cup {p} |-> IF q = p THEN <<>> ELSE f[q]]

Max(a, b) == IF a >= b THEN a ELSE b

\* write(2) of `toks` at offset `at` of a file holding `s`: bytes past the end
\* of the file leave a hole, bytes inside it are overwritten.
WriteAt(s, at, toks) ==
    [k \in 1..Max(Len(s), at + Len(toks)) |->
        IF k > at /\ k <= at + Len(toks) THEN toks[k - at]
        ELSE IF k <= Len(s) THEN s[k]
        ELSE Hole]

Write(f, p, at, toks) == [f EXCEPT ![p] = WriteAt(f[p], at, toks)]


\* ------------------------------------------------------------------ JSON
IsChunkList(m) ==
    \/ Len(m) = 0
    \/ /\ Len(m) % 2 = 1
       /\ \A k \in 1..Len(m) : m[k].k = (IF k % 2 = 1 THEN "chunk" ELSE ",")

\* json.load accepts the text: an object with name, id and a `chunks` array.
IsJsonObject(s) ==
    /\ Len(s) >= 6
    /\ s[1].k = "{" /\ s[2].k = "name" /\ s[3].k = "id" /\ s[4].k = "chunks["
    /\ s[Len(s) - 1].k = "]" /\ s[Len(s)].k = "}"
    /\ IsChunkList(SubSeq(s, 5, Len(s) - 2))

\* json.load accepts the text as a bare array (chunk_document's output).
IsJsonArray(s) ==
    /\ Len(s) >= 2
    /\ s[1].k = "[" /\ s[Len(s)].k = "]"
    /\ IsChunkList(SubSeq(s, 2, Len(s) - 1))

IsChunkTok(t) == t.k = "chunk"

\* The chunk objects of a text, in order of appearance.
ChunksOf(s) == SelectSeq(s, IsChunkTok)

\* json.dump of a list of chunk objects: elements joined by commas.
RECURSIVE JoinChunks(_)
JoinChunks(cs) ==
    IF Len(cs) = 0 THEN <<>>
    ELSE IF Len(cs) = 1 THEN <<cs[1]>>
    ELSE <<cs[1], Punct(",", cs[1].d)>> \o JoinChunks(Tail(cs))

JsonDumpList(cs, d) == <<Punct("[", d)>> \o JoinChunks(cs) \o <<Punct("]", d)>>

\* ---------------------------------------------------------------- threads
\* Converter settings: the defaults of DocumentPipeline.__init__
\* (doclingbackup.py lines 126-131) and another choice of every setting.
DefaultConfig ==
    [ocr_enabled |-> TRUE, ocr_lang |-> "en", queue_size |-> 20, batches |-> <<12, 12, 12>>]
OtherConfig ==
    [ocr_enabled |-> FALSE, ocr_lang |-> "hi", queue_size |-> 12, batches |-> <<10, 10, 8>>]
Configs == {DefaultConfig, OtherConfig}

\* No DocumentConverter instance.
NoConverter == [module |-> "", by |-> <<"", 0>>, n |-> 0, cfg |-> DefaultConfig]

\* No call of a conversion entry point was made yet.
NoCall == [fn |-> "", thread |-> <<"", 0>>, ext |-> "", cfg |-> DefaultConfig,
           outcome |-> "", converter |-> NoConverter, built |-> FALSE]

\* The thread running the event loop, and the worker thread an executor
\* gives the job's hand-off (run_in_executor).
LoopThread == <<"loop", 0>>
Executor(j) == <<"executor", j>>

\* Engine work of `kind` done for job j on thread t.
Does(j, kind, t) == work' = work \cup {[job |-> j, kind |-> kind, thread |-> t]}

\* ------------------------- _extract_markdown_table_title_and_header
\* A line of text is the sequence of its runs of equal characters:
\* "## ab" is <<Run("#", 2), Run(" ", 1), Run("a", 1), Run("b", 1)>>.
Run(c, n) == [c |-> c, n |-> n]

\* Python's None where a string may stand.
None == <<Run("None", 0)>>

\* Truth value of an Optional[str]: None and "" are false.
Truthy(s) == s # None /\ s # <<>>

RECURSIVE Length(_)
Length(s) == IF s = <<>> THEN 0 ELSE s[1].n + Length(Tail(s))

RECURSIVE CharAt(_, _)
CharAt(s, k) == IF k <= s[1].n THEN s[1].c ELSE CharAt(Tail(s), k - s[1].n)

\* str.startswith(prefix), the prefix given as a tuple of characters.
startswith(s, prefix) ==
    /\ Length(s) >= Len(prefix)
    /\ \A k \in 1..Len(prefix) : CharAt(s, k) = prefix[k]

\* str.endswith(c) for one character.
endswith(s, c) == s # <<>> /\ s[Len(s)].c = c

\* str.lstrip(c) for one character; str.strip() for blanks.
lstrip(s, c) == IF s # <<>> /\ s[1].c = c THEN Tail(s) ELSE s
rstrip(s, c) == IF s # <<>> /\ s[Len(s)].c = c THEN SubSeq(s, 1, Len(s) - 1) ELSE s
strip(s) == rstrip(lstrip(s, " "), " ")

\* Line 635: `line_stripped.startswith('|--')`, the test for a separator row.
IsSeparatorRow(line) == startswith(strip(line), <<"|", "-", "-">>)

\* Line 635: is_table_line.
IsTableLine(line) == startswith(strip(line), <<"|">>) /\ ~IsSeparatorRow(line)

\* Lines 630-643: the loop over the lines from line i on, given in_table;
\* the positions appended to table_starts (position 1 is lines[0]).
RECURSIVE TableStarts(_, _, _)
TableStarts(lines, at, in_table) ==
    IF at > Len(lines) THEN <<>>
    ELSE IF IsTableLine(lines[at]) /\ ~in_table
    THEN <<at>> \o TableStarts(lines, at + 1, TRUE)
    ELSE IF ~IsTableLine(lines[at]) /\ ~IsSeparatorRow(lines[at])
    THEN TableStarts(lines, at + 1, FALSE)
    ELSE TableStarts(lines, at + 1, in_table)

\* Lines 672-677: the first line from j up to the table's first line that,
\* stripped, is not empty, starts with `(` and ends with `)`.
RECURSIVE FindSubtitle(_, _, _)
FindSubtitle(lines, j, table_start) ==
    IF j >= table_start THEN None
    ELSE LET potential_subtitle == strip(lines[j])
         IN IF /\ potential_subtitle # <<>>
               /\ startswith(potential_subtitle, <<"(">>)
               /\ endswith(potential_subtitle, ")")
            THEN potential_subtitle
            ELSE FindSubtitle(lines, j + 1, table_start)

\* Line 681: a line that may serve as a title without `##`.
IsTitleCandidate(line) ==
    /\ ~startswith(line, <<"|">>)
    /\ 10 < Length(line) /\ Length(line) < 150
    /\ ~startswith(line, <<"*">>)

\* Lines 659-685: the loop `for i in range(table_start_idx - 1,
\* max(-1, table_start_idx - 5), -1)` from position `at` down, given the
\* candidate kept so far.
RECURSIVE LookBack(_, _, _, _)
LookBack(lines, table_start, at, potential) ==
    IF at <= Max(0, table_start - 5)
    THEN [table_title |-> None, subtitle |-> None, potential |-> potential]
    ELSE LET line == strip(lines[at])
         IN IF line = <<>>
            THEN LookBack(lines, table_start, at - 1, potential)
            ELSE IF startswith(line, <<"#", "#">>)
            THEN [table_title |-> strip(lstrip(line, "#")),
                  subtitle |-> FindSubtitle(lines, at + 1, table_start),
                  potential |-> potential]
            ELSE IF IsTitleCandidate(line) /\ ~Truthy(potential)
            THEN LookBack(lines, table_start, at - 1, line)
            ELSE LookBack(lines, table_start, at - 1, potential)

\* A cell is the tuple of its characters.  Line 696.
header_indicators ==
    {<<"2", "0", "2", "3">>, <<"2", "0", "2", "4">>, <<"2", "0", "2", "5">>,
     <<"2", "0", "2", "6">>, <<"f", "y">>, <<"y", "e", "a", "r">>,
     <<"m", "a", "r", "c", "h">>, <<"q", "u", "a", "r", "t", "e", "r">>,
     <<"q", "1">>, <<"q", "2">>, <<"q", "3">>, <<"q", "4">>,
     <<"j", "u", "n", "e">>,
     <<"s", "e", "p", "t", "e", "m", "b", "e", "r">>,
     <<"d", "e", "c", "e", "m", "b", "e", "r">>}

\* str.lower() on the letters the cells of the model are written with.
LowerChar(c) ==
    CASE c = "F" -> "f" [] c = "Y" -> "y" [] c = "Q" -> "q" [] OTHER -> c

lower(cell) == [k \in 1..Len(cell) |-> LowerChar(cell[k])]

\* ' '.join(cells)
RECURSIVE Join(_)
Join(cells) ==
    IF cells = <<>> THEN <<>>
    ELSE IF Len(cells) = 1 THEN cells[1]
    ELSE cells[1] \o <<" ">> \o Join(Tail(cells))

\* `indicator in text`
Contains(text, indicator) ==
    \E k \in 0..(Len(text) - Len(indicator)) :
        SubSeq(text, k + 1, k + Len(indicator)) = indicator

\* Lines 700-701 and 707-708: the row, lowercased and joined by spaces,
\* holds one of the indicators.
HasIndicator(row) ==
    LET row_text == Join([k \in 1..Len(row) |-> lower(row[k])])
    IN \E indicator \in header_indicators : Contains(row_text, indicator)

\* Lines 692-710.
num_header_rows(grid) ==
    IF Len(grid) >= 3 /\ HasIndicator(grid[2])
    THEN IF HasIndicator(grid[3]) THEN 3 ELSE 2
    ELSE 1

\* What the function hands back, with its local table_starts.
Extracted(title, n, subtitle, starts) ==
    [table_title |-> title, num_header_rows |-> n, subtitle |-> subtitle,
     table_starts |-> starts, called |-> TRUE]

NotCalled ==
    [table_title |-> None, num_header_rows |-> 0, subtitle |-> None,
     table_starts |-> <<>>, called |-> FALSE]

\* The content "" is the single empty line.
NoContent(lines) == lines = <<>> \/ lines = << <<>> >>

\* _extract_markdown_table_title_and_header(table_idx, table_data) on
\* self.markdown_content = lines (lines 622-713).
extract_markdown_table_title_and_header(lines, idx, grid) ==
    IF NoContent(lines) \/ grid = <<>>
    THEN Extracted(None, 1, None, <<>>)
    ELSE LET starts == TableStarts(lines, 1, FALSE)
         IN IF idx >= Len(starts)
            THEN Extracted(None, 1, None, starts)
            ELSE LET table_start == starts[idx + 1]
                     back == LookBack(lines, table_start, table_start - 1, None)
                     title == IF ~Truthy(back.table_title) /\ Truthy(back.potential)
                              THEN back.potential ELSE back.table_title
                 IN Extracted(title, num_header_rows(grid), back.subtitle, starts)

\* No table has been visited and no title asked for.

\* A markdown text as f.read() gives it (line 151), with a heading of d
\* characters above its table, and the cells of that table.
DocLines(d) ==
    << <<Run("#", 2), Run(" ", 1), Run("a", d)>>,
       <<Run("|", 1), Run(" ", 1), Run("a", 3), Run(" ", 1), Run("|", 1)>>,
       <<Run("|", 1), Run("-", 3), Run("|", 1)>>,
       <<Run("|", 1), Run(" ", 1), Run("a", 3), Run(" ", 1), Run("|", 1)>> >>
DocGrid(d) == << << <<"a">>, <<"1">> >>, << <<"a">>, <<"1">> >> >>

\* What the extraction returns on the text of document d for table idx of
\* document g, computed once for every d, g and idx.
DocTitles ==
    [d \in Jobs |-> [g \in Jobs |-> [idx \in 0..MaxTables |->
        extract_markdown_table_title_and_header(DocLines(d), idx, DocGrid(g))]]]

\* Line 206 in the call for document g: the extraction reads `lines`, the
\* text self.markdown_content holds at that moment.
ExtractFor(lines, idx, g) ==
    IF \E d \in Jobs : lines = DocLines(d)
    THEN DocTitles[CHOOSE d \in Jobs : lines = DocLines(d)][g][idx]
    ELSE extract_markdown_table_title_and_header(lines, idx, DocGrid(g))

\* ------------------------------------------------- process_markdown_file
TableOutcomes == {"ok", "empty", "raise", "ser"}
TextOutcomes == {"ok", "ctx", "empty", "table", "raise", "ser"}

Header(d) == <<Punct("{", d), Punct("name", d), Punct("id", d), Punct("chunks[", d)>>
Footer(d) == <<Punct("]", d), Punct("}", d)>>

\* The separator written before a chunk (lines 243-246, 376-379).
Separator(first, d) == IF first THEN <<>> ELSE <<Punct(",", d)>>

\* TableBody with `Index += 1` run on every pass, also one that raised.
TableBody_CountsFailures(kind, n, d, st) ==
    CASE kind = "ok" ->
            [toks  |-> Separator(st.first, d) \o <<Tok("chunk", st.Index, "table", n, d)>>,
             Index |-> st.Index + 1, first |-> FALSE, warn |-> 0]
      [] kind = "ser" ->
            [toks  |-> Separator(st.first, d),
             Index |-> st.Index + 1, first |-> FALSE, warn |-> 1]
      [] OTHER ->
            [toks  |-> <<>>, Index |-> st.Index + 1, first |-> st.first, warn |-> 1]

\* One pass of the table loop body (lines 185-259) for a table whose
\* extraction ends as `kind`; st = [Index, first].  What is written, the
\* locals afterwards, and whether a warning is logged.
\*   ok     the chunk is written
\*   empty  _extract_table_structure returned nothing: warning, continue
\*   raise  an exception before the separator is written (lines 186-240)
\*   ser    an exception after lines 243-246 ran and before the chunk text
\*          reaches the file (json.dumps of the chunk, line 248)
TableBody(kind, n, d, st) ==
    CASE kind = "ok" ->
            [toks  |-> Separator(st.first, d) \o <<Tok("chunk", st.Index, "table", n, d)>>,
             Index |-> st.Index + 1, first |-> FALSE, warn |-> 0]
      [] kind = "ser" ->
            [toks  |-> Separator(st.first, d),
             Index |-> st.Index, first |-> FALSE, warn |-> 1]
      [] OTHER ->
            [toks  |-> <<>>, Index |-> st.Index, first |-> st.first, warn |-> 1]

\* One pass of the text loop body (lines 264-387).  Only the call of
\* chunker.contextualize is guarded (lines 268-276: the chunk is then built
\* from chunk.text); any other exception leaves the loop and the function.
\*   ok / ctx     the chunk is written
\*   empty, table `continue` (lines 279-280, 290-292)
\*   raise        an exception before the separator is written
\*   ser          an exception at lines 381-385, after the separator
TextBody(kind, n, d, st) ==
    CASE kind \in {"ok", "ctx"} ->
            [toks  |-> Separator(st.first, d) \o <<Tok("chunk", st.Index, "text", n, d)>>,
             Index |-> st.Index + 1, first |-> FALSE,
             warn  |-> IF kind = "ctx" THEN 1 ELSE 0, skip |-> 0, raised |-> FALSE]
      [] kind \in {"empty", "table"} ->
            [toks  |-> <<>>, Index |-> st.Index, first |-> st.first,
             warn  |-> 0, skip |-> 1, raised |-> FALSE]
      [] kind = "ser" ->
            [toks  |-> Separator(st.first, d), Index |-> st.Index, first |-> FALSE,
             warn  |-> 0, skip |-> 0, raised |-> TRUE]
      [] OTHER ->
            [toks  |-> <<>>, Index |-> st.Index, first |-> st.first,
             warn  |-> 0, skip |-> 0, raised |-> TRUE]


Set(f, j, v) == [f EXCEPT ![j] = v]

\* Whether the job's call is made by DocumentPipeline.process.
InProcess(j) == entry[j] \in {"process", "process_batch"}

TableKinds(j) == IF clean[j] THEN {"ok"} ELSE TableOutcomes
TextKinds(j) == IF clean[j] THEN {"ok"} ELSE TextOutcomes

\* The job may take a step: no other job is inside a synchronous stretch.
\* Tasks created by gather() all take their first step before any
\* suspended task is resumed.
MayRun(j) == running = j \/ (running = 0 /\ \A k \in Jobs : pc[k] # "new")

\* `return v` of the chunking call; the caller goes on without suspending.
Return(j, v) ==
    /\ ret' = Set(ret, j, v)
    /\ pc' = Set(pc, j, IF InProcess(j) THEN "chunked" ELSE "done")
    /\ running' = IF InProcess(j) THEN j ELSE 0

\* The handler of lines 397-409: log the error, close the file, return 0.
PMF_Except(j) ==
    /\ errors' = Set(errors, j, errors[j] + 1)
    /\ isOpen' = Set(isOpen, j, FALSE)
    /\ Return(j, 0)

\* Lines 150-165: the awaited read of the markdown file ends; convert the
\* file; then ask for the output file to be opened.
PMF_Read(j) ==
    /\ pc[j] = "pmf_read" /\ MayRun(j)
    /\ \E converts \in (IF clean[j] THEN {TRUE} ELSE BOOLEAN) :
         IF Exists(markdown_path[j]) /\ converts
         THEN /\ pc' = Set(pc, j, "pmf_open")
              /\ running' = 0
              /\ UNCHANGED <<ret, errors, isOpen>>
         ELSE PMF_Except(j)
    /\ UNCHANGED <<entry, src, outPath, fs, nTables, nTexts, clean, table_idx, i,
                   Index, is_first_chunk, chunks, pos, warnings, skips,
                   procVars, gateVars, batchVars>>
    /\ IF Exists(markdown_path[j])
       THEN /\ Does(j, "convert_md", LoopThread)
            /\ markdown_content' = documents[j]
       ELSE UNCHANGED <<work, markdown_content>>
    /\ UNCHANGED <<syncVars, ocrVars, inputVars, table_data, extracted, section_titles,
                   documents>>

\* Line 165: aiofiles.open(output_json_path, 'w') creates or truncates.
PMF_Open(j) ==
    /\ pc[j] = "pmf_open" /\ MayRun(j)
    /\ fs' = OpenW(fs, outPath[j])
    /\ pos' = Set(pos, j, 0)
    /\ isOpen' = Set(isOpen, j, TRUE)
    /\ pc' = Set(pc, j, "pmf_header")
    /\ UNCHANGED <<entry, src, running, outPath, nTables, nTexts, clean, table_idx,
                   i, Index, is_first_chunk, chunks, ret, errors, warnings, skips,
                   procVars, gateVars, batchVars>>
    /\ UNCHANGED engineVars

\* Lines 168-179: the document header, Index = 0, is_first_chunk = True.
PMF_Header(j) ==
    /\ pc[j] = "pmf_header" /\ MayRun(j)
    /\ fs' = Write(fs, outPath[j], pos[j], Header(j))
    /\ pos' = Set(pos, j, pos[j] + Len(Header(j)))
    /\ Index' = Set(Index, j, 0)
    /\ is_first_chunk' = Set(is_first_chunk, j, TRUE)
    /\ pc' = Set(pc, j, "pmf_body")
    /\ UNCHANGED <<entry, src, running, outPath, nTables, nTexts, clean, table_idx,
                   i, chunks, isOpen, ret, errors, warnings, skips,
                   procVars, gateVars, batchVars>>
    /\ UNCHANGED engineVars

\* Lines 184-259: one pass of the table loop.
PMF_Table(j) ==
    /\ pc[j] = "pmf_body" /\ MayRun(j)
    /\ table_idx[j] < nTables[j]
    /\ \E kind \in TableKinds(j) :
         LET r == TableBody(kind, table_idx[j], j,
                            [Index |-> Index[j], first |-> is_first_chunk[j]])
         IN /\ fs' = Write(fs, outPath[j], pos[j], r.toks)
            /\ pos' = Set(pos, j, pos[j] + Len(r.toks))
            /\ Index' = Set(Index, j, r.Index)
            /\ is_first_chunk' = Set(is_first_chunk, j, r.first)
            /\ warnings' = Set(warnings, j, warnings[j] + r.warn)
            /\ IF kind \in {"ok", "ser"}
               THEN extracted' = ExtractFor(markdown_content, table_idx[j], j)
               ELSE UNCHANGED extracted
    /\ table_idx' = Set(table_idx, j, table_idx[j] + 1)
    /\ UNCHANGED <<entry, src, pc, running, outPath, nTables, nTexts, clean, i,
                   chunks, isOpen, ret, errors, skips, procVars, gateVars, batchVars>>
    /\ UNCHANGED <<work, syncVars, ocrVars, inputVars, markdown_content, table_data,
                   section_titles, documents>>

\* Lines 264-387: one pass of the text loop.
PMF_Text(j) ==
    /\ pc[j] = "pmf_body" /\ MayRun(j)
    /\ table_idx[j] = nTables[j] /\ i[j] < nTexts[j]
    /\ \E kind \in TextKinds(j) :
         LET r == TextBody(kind, i[j], j,
                           [Index |-> Index[j], first |-> is_first_chunk[j]])
         IN /\ fs' = Write(fs, outPath[j], pos[j], r.toks)
            /\ pos' = Set(pos, j, pos[j] + Len(r.toks))
            /\ Index' = Set(Index, j, r.Index)
            /\ is_first_chunk' = Set(is_first_chunk, j, r.first)
            /\ warnings' = Set(warnings, j, warnings[j] + r.warn)
            /\ skips' = Set(skips, j, skips[j] + r.skip)
            /\ IF r.raised
               THEN PMF_Except(j)
               ELSE UNCHANGED <<pc, running, ret, errors, isOpen>>
    /\ i' = Set(i, j, i[j] + 1)
    /\ UNCHANGED <<entry, src, outPath, nTables, nTexts, clean, table_idx, chunks,
                   procVars, gateVars, batchVars>>
    /\ UNCHANGED engineVars

\* Lines 389-395: close the JSON structure and the file, return Index.
PMF_Close(j) ==
    /\ pc[j] = "pmf_body" /\ MayRun(j)
    /\ table_idx[j] = nTables[j] /\ i[j] = nTexts[j]
    /\ fs' = Write(fs, outPath[j], pos[j], Footer(j))
    /\ pos' = Set(pos, j, pos[j] + Len(Footer(j)))
    /\ isOpen' = Set(isOpen, j, FALSE)
    /\ Return(j, Index[j])
    /\ UNCHANGED <<entry, src, outPath, nTables, nTexts, clean, table_idx, i, Index,
                   is_first_chunk, chunks, errors, warnings, skips,
                   procVars, gateVars, batchVars>>
    /\ UNCHANGED engineVars


\* -------------------------------------------------------- chunk_document
CdOutcomes == {"ok", "table", "empty", "raise", "iter"}
CdKinds(j) == IF clean[j] THEN {"ok"} ELSE CdOutcomes

\* One pass of the loop of document_process.py lines 599-654; st =
\* [chunk_index, chunks].
\*   ok, table  the chunk is appended (content_type text / table)
\*   empty      `continue` (lines 603-605)
\*   raise      an exception inside the loop body: warning, continue
\*   iter       the chunk iterator itself raises: handler of lines 658-670
ChunkDocumentBody(kind, n, d, st) ==
    CASE kind \in {"ok", "table"} ->
            [chunks |-> Append(st.chunks,
                               Tok("chunk", st.chunk_index,
                                   IF kind = "table" THEN "table" ELSE "text", n, d)),
             chunk_index |-> st.chunk_index + 1,
             warn |-> 0, skip |-> 0, raised |-> FALSE]
      [] kind = "empty" ->
            [chunks |-> st.chunks, chunk_index |-> st.chunk_index,
             warn |-> 0, skip |-> 1, raised |-> FALSE]
      [] kind = "raise" ->
            [chunks |-> st.chunks, chunk_index |-> st.chunk_index,
             warn |-> 1, skip |-> 0, raised |-> FALSE]
      [] OTHER ->
            [chunks |-> st.chunks, chunk_index |-> st.chunk_index,
             warn |-> 0, skip |-> 0, raised |-> TRUE]

\* Path(temp_file).unlink() and Path(temp_md_file.name).unlink(), each under
\* its `if` (lines 660-669, 686-697, 705-716): the files the call created go.
TempFilesRemoved(f) == [q \in (DOMAIN f) \ {temp_file, temp_md_file} |-> f[q]]

\* Lines 593-670: one pass of the chunk loop (chunk_index is held in Index).
CD_Chunk(j) ==
    /\ pc[j] = "cd_body" /\ MayRun(j)
    /\ i[j] < nTexts[j]
    /\ \E kind \in CdKinds(j) :
         LET r == ChunkDocumentBody(kind, i[j], j,
                                    [chunk_index |-> Index[j], chunks |-> chunks[j]])
         IN /\ chunks' = Set(chunks, j, r.chunks)
            /\ Index' = Set(Index, j, r.chunk_index)
            /\ warnings' = Set(warnings, j, warnings[j] + r.warn)
            /\ skips' = Set(skips, j, skips[j] + r.skip)
            /\ IF r.raised
               THEN /\ errors' = Set(errors, j, errors[j] + 1)
                    /\ fs' = TempFilesRemoved(fs)
                    /\ Return(j, 0)
               ELSE UNCHANGED <<pc, running, ret, errors, fs>>
    /\ i' = Set(i, j, i[j] + 1)
    /\ UNCHANGED <<entry, src, outPath, nTables, nTexts, clean, table_idx,
                   is_first_chunk, pos, isOpen, procVars, gateVars, batchVars>>
    /\ UNCHANGED engineVars

\* Lines 673-700: json.dump of the chunk list, return len(chunks).
CD_Save(j) ==
    /\ pc[j] = "cd_body" /\ MayRun(j)
    /\ i[j] = nTexts[j]
    /\ fs' = TempFilesRemoved(Write(OpenW(fs, outPath[j]), outPath[j], 0,
                                     JsonDumpList(chunks[j], j)))
    /\ Return(j, Len(chunks[j]))
    /\ UNCHANGED <<entry, src, outPath, nTables, nTexts, clean, table_idx, i, Index,
                   is_first_chunk, chunks, pos, isOpen, errors, warnings, skips,
                   procVars, gateVars, batchVars>>
    /\ UNCHANGED engineVars


\* ------------------------------------------------ DocumentPipeline.process
\* json.dump of `data`: the object with name, id and the chunk array.
JsonDump(dt) ==
    <<Punct("{", dt.name.d), dt.name, dt.id, Punct("chunks[", dt.name.d)>>
        \o JoinChunks(dt.chunks) \o Footer(dt.name.d)

\* json.load of an accepted text.
JsonLoad(s) == [name |-> s[2], id |-> s[3], chunks |-> ChunksOf(s), added |-> 0]

NoData == [name |-> Hole, id |-> Hole, chunks |-> <<>>, added |-> 0]

\* The chunk made of one OCR result (lines 283-293): it has no "Index" member.
OcrChunk(image_index, d) == Tok("chunk", -1, "image_ocr", image_index, d)

\* The results listed in the order the recognitions ended, the last image
\* first.
RECURSIVE OcrResults_AsCompleted(_, _)
OcrResults_AsCompleted(n, S) ==
    IF n = 0 THEN <<>>
    ELSE (IF n \in S THEN <<n>> ELSE <<>>) \o OcrResults_AsCompleted(n - 1, S)

\* Results numbered by their position among the images that gave text.
OcrResults_Renumbered(n, S) == [k \in 1..Cardinality(S) |-> k]

\* extract_and_ocr_images lines 101-112 for n embedded images of which those
\* in S yield text: one task per image, numbered from 1 in order of
\* appearance; gather lists the results in task order; the None results are
\* filtered out.  The image_index values of ocr_results.
RECURSIVE OcrResults(_, _)
OcrResults(n, S) ==
    IF n = 0 THEN <<>>
    ELSE OcrResults(n - 1, S) \o (IF n \in S THEN <<n>> ELSE <<>>)

\* Lines 282-295: one chunk per OCR result, in the order of ocr_results.
OcrChunks(idxs, d) == [k \in 1..Len(idxs) |-> OcrChunk(idxs[k], d)]

\* An append that replaces the chunks loaded from the file.
AppendOcr_Replaces(dt, ocrs) == [dt EXCEPT !.chunks = ocrs, !.added = Len(ocrs)]

\* Lines 282-295: data['chunks'].append(chunk) for every OCR chunk,
\* num_ocr_chunks counting them.
AppendOcr(dt, ocrs) == [dt EXCEPT !.chunks = dt.chunks \o ocrs, !.added = Len(ocrs)]

MdText(d) == <<Tok("md", -1, "", 0, d)>>

IsTmp(p) == p[1] = "tmp"

\* shutil.rmtree(self.temp_dir) of the `finally` clause (lines 334-342).
Rmtree(f) == [q \in {x \in DOMAIN f : ~IsTmp(x)} |-> f[q]]

Remove(f, p) == [q \in (DOMAIN f) \ {p} |-> f[q]]

\* get_unique_filename (md_converter.py lines 161-171): the first of
\* stem.md, stem_1.md, stem_2.md ... that does not exist.
RECURSIVE UniqueFrom(_, _, _)
UniqueFrom(f, stem, n) ==
    IF TmpMd(stem, n) \in DOMAIN f THEN UniqueFrom(f, stem, n + 1) ELSE TmpMd(stem, n)

get_unique_filename(f, stem) == UniqueFrom(f, stem, 0)

\* A release that ends the task and keeps its permit.
Release_KeepsPermit(j) ==
    /\ pc' = Set(pc, j, "done")
    /\ UNCHANGED <<semaphore, waiters>>

\* A release that wakes the task queued last.
Release_Newest(j) ==
    IF waiters # <<>>
    THEN /\ pc' = [pc EXCEPT ![j] = "done", ![waiters[Len(waiters)]] = "admitted"]
         /\ waiters' = SubSeq(waiters, 1, Len(waiters) - 1)
         /\ UNCHANGED semaphore
    ELSE /\ pc' = Set(pc, j, "done")
         /\ semaphore' = semaphore + 1
         /\ UNCHANGED waiters

\* semaphore.release() at the end of `async with semaphore`: the permit goes
\* to the oldest waiter if there is one.
Release(j) ==
    IF entry[j] \in {"process_batch", "batch_convert_async"}
    THEN IF waiters # <<>>
         THEN /\ pc' = [pc EXCEPT ![j] = "done", ![Head(waiters)] = "admitted"]
              /\ waiters' = Tail(waiters)
              /\ UNCHANGED semaphore
         ELSE /\ pc' = Set(pc, j, "done")
              /\ semaphore' = semaphore + 1
              /\ UNCHANGED waiters
    ELSE /\ pc' = Set(pc, j, "done")
         /\ UNCHANGED <<semaphore, waiters>>

\* A cleanup that does not ask who made the directory.
CleansUp_Always == temp_dir

\* Line 336: `self.cleanup_temp and os.path.exists(self.temp_dir)`.
CleansUp == cleanup_temp /\ temp_dir

\* The end of a call: the `finally` clause of process (lines 334-342) run on
\* the file system f, the outcome handed to the caller, the slot released.
Finish(j, res, f) ==
    /\ result' = Set(result, j, res)
    /\ IF InProcess(j) /\ CleansUp
       THEN fs' = Rmtree(f) /\ temp_dir' = FALSE
       ELSE fs' = f /\ UNCHANGED temp_dir
    /\ running' = 0
    /\ Release(j)
    /\ completed' = Append(completed, j)
    /\ UNCHANGED <<max_concurrent, results>>

Failed == [done |-> TRUE, success |-> FALSE, num_chunks |-> 0, num_ocr_chunks |-> 0,
           markdown_path |-> NoPath]
Pending == [done |-> FALSE, success |-> FALSE, num_chunks |-> 0, num_ocr_chunks |-> 0,
            markdown_path |-> NoPath]

\* The handler of lines 323-332.
P_Fail(j) == Finish(j, Failed, fs)

\* A test of the flag alone.
KeepsMarkdown_FlagOnly(j) == keep_markdown

\* Line 304: `keep_markdown or is_already_markdown`.
KeepsMarkdown(j) == keep_markdown \/ src[j].ext = "md"

\* Line 315: `str(markdown_path) if keep_markdown else None`.
ReportedMarkdown(j) == IF keep_markdown THEN markdown_path[j] ELSE NoPath

\* Lines 303-321: remove the intermediate markdown, return the statistics.
P_Success(j, f, nOcr) ==
    LET md == markdown_path[j]
        g  == IF ~KeepsMarkdown(j) /\ md \in DOMAIN f
              THEN Remove(f, md) ELSE f
    IN Finish(j, [done |-> TRUE, success |-> TRUE, num_chunks |-> ret[j],
                  num_ocr_chunks |-> nOcr, markdown_path |-> ReportedMarkdown(j)], g)

\* md_converter.py lines 83-86.
SUPPORTED_FORMATS ==
    {"pdf", "docx", "xlsx", "csv", "pptx", "html", "txt",
     "png", "jpg", "jpeg", "tiff", "bmp", "gif"}

\* A check of the extension that lets every file name through.
Supported_Any(ext) == TRUE

\* validate_input lines 432-438: the file name has an extension and the
\* extension is a supported format.
Supported(ext) == ext # "" /\ ext \in SUPPORTED_FORMATS

\* validate_input (md_converter.py lines 421-440).
ValidInput(sr) == sr.readable /\ Supported(sr.ext)

\* Lines 204-228 and convert_single_async up to run_in_executor; for a
\* markdown input, lines 241-253 and process_markdown_file up to its awaited
\* read of the markdown file (chunking.py lines 150-151).
P_Start(j) ==
    /\ pc[j] = "admitted" /\ MayRun(j)
    /\ IF InProcess(j) /\ src[j].ext = "md"
       THEN /\ markdown_path' = Set(markdown_path, j, InPath(src[j]))
            /\ pc' = Set(pc, j, "pmf_read")
            /\ running' = 0
            /\ UNCHANGED <<fs, result, temp_dir, gateVars, batchVars>>
       ELSE IF ValidInput(src[j])
       THEN /\ pc' = Set(pc, j, "converting")
            /\ running' = 0
            /\ UNCHANGED <<fs, result, temp_dir, gateVars, batchVars, markdown_path>>
       ELSE P_Fail(j) /\ UNCHANGED markdown_path
    /\ UNCHANGED <<entry, src, outPath, chunkVars, nImages, ocr, keep_markdown,
                   cleanup_temp, file_locks, data>>
    /\ UNCHANGED engineVars

\* asyncio.Lock of _file_locks[path] (md_converter.py lines 368-370).
TakeLock(j, path) ==
    IF path \in file_locks
    THEN /\ pc' = Set(pc, j, "lockwait") /\ UNCHANGED file_locks
    ELSE /\ pc' = Set(pc, j, "saving") /\ file_locks' = file_locks \cup {path}

\* convert_single_async lines 613-622: the engine's result, the unique name,
\* save_markdown_async up to the opening of its temp file.
P_Converted(j) ==
    /\ pc[j] = "converting" /\ MayRun(j)
    /\ IF src[j].converts
       THEN LET path == get_unique_filename(fs, src[j].stem)
            IN /\ markdown_path' = Set(markdown_path, j, path)
               /\ TakeLock(j, path)
               /\ UNCHANGED <<running, fs, result, temp_dir, gateVars, batchVars>>
       ELSE P_Fail(j) /\ UNCHANGED <<markdown_path, file_locks>>
    /\ UNCHANGED <<entry, src, outPath, chunkVars, nImages, ocr, keep_markdown,
                   cleanup_temp, data>>
    /\ Does(j, "convert", Executor(j))
    /\ UNCHANGED <<syncVars, ocrVars, titleVars, inputVars>>

P_LockAcquired(j) ==
    /\ pc[j] = "lockwait" /\ MayRun(j)
    /\ markdown_path[j] \notin file_locks
    /\ TakeLock(j, markdown_path[j])
    /\ UNCHANGED <<entry, src, running, outPath, fs, chunkVars, nImages,
                   markdown_path, result, ocr, keep_markdown, temp_dir,
                   cleanup_temp, data, gateVars, batchVars>>
    /\ UNCHANGED engineVars

\* save_markdown_async lines 372-387: write the temp file, rename it; the
\* caller goes on (process lines 241-253, process_markdown_file up to its
\* awaited read; batch_convert_async: the path is the job's result).
P_Saved(j) ==
    /\ pc[j] = "saving" /\ MayRun(j)
    /\ file_locks' = file_locks \ {markdown_path[j]}
    /\ IF temp_dir
       THEN LET f == [q \in (DOMAIN fs) \cup {markdown_path[j]} |->
                        IF q = markdown_path[j] THEN MdText(j) ELSE fs[q]]
            IN IF InProcess(j)
               THEN /\ fs' = f
                    /\ pc' = Set(pc, j, "pmf_read")
                    /\ running' = 0
                    /\ UNCHANGED <<result, temp_dir, gateVars, batchVars>>
               ELSE Finish(j, [done |-> TRUE, success |-> TRUE, num_chunks |-> 0,
                               num_ocr_chunks |-> 0,
                               markdown_path |-> markdown_path[j]], f)
       ELSE P_Fail(j)
    /\ UNCHANGED <<entry, src, outPath, chunkVars, nImages, markdown_path, ocr,
                   keep_markdown, cleanup_temp, data>>
    /\ UNCHANGED engineVars

\* Lines 265-274: without OCR the call ends; with it extract_and_ocr_images
\* reads the markdown file and hands the images to the executor.
P_AfterChunk(j) ==
    /\ pc[j] = "chunked" /\ MayRun(j)
    /\ IF ~ocr
       THEN P_Success(j, fs, 0)
       ELSE IF ~Exists(markdown_path[j])
       THEN P_Fail(j)
       ELSE IF nImages[j] = 0
       THEN P_Success(j, fs, 0)
       ELSE /\ pc' = Set(pc, j, "ocr")
            /\ running' = 0
            /\ UNCHANGED <<fs, result, temp_dir, gateVars, batchVars>>
    /\ UNCHANGED <<entry, src, outPath, chunkVars, nImages, markdown_path, ocr,
                   keep_markdown, cleanup_temp, file_locks, data>>
    /\ UNCHANGED engineVars

\* Lines 276-298: the OCR results are in; load the output file, append one
\* chunk per result, open the output file for writing.
P_OcrDone(j) ==
    /\ pc[j] = "ocr" /\ MayRun(j)
    /\ \E S \in (IF clean[j] THEN {1..nImages[j]} ELSE SUBSET (1..nImages[j])) :
         IF S = {}
         THEN P_Success(j, fs, 0) /\ UNCHANGED data
         ELSE IF Exists(outPath[j]) /\ IsJsonObject(fs[outPath[j]])
         THEN /\ data' = Set(data, j,
                     AppendOcr(JsonLoad(fs[outPath[j]]),
                               OcrChunks(OcrResults(nImages[j], S), j)))
              /\ fs' = OpenW(fs, outPath[j])
              /\ pc' = Set(pc, j, "ocr_write")
              /\ running' = j
              /\ UNCHANGED <<result, temp_dir, gateVars, batchVars>>
         ELSE P_Fail(j) /\ UNCHANGED data
    /\ UNCHANGED <<entry, src, outPath, chunkVars, nImages, markdown_path, ocr,
                   keep_markdown, cleanup_temp, file_locks>>
    /\ Does(j, "ocr", Executor(j))
    /\ UNCHANGED <<syncVars, ocrVars, titleVars, inputVars>>

\* Lines 298-321: json.dump into the truncated file, then the end of the call.
P_OcrWrite(j) ==
    /\ pc[j] = "ocr_write" /\ MayRun(j)
    /\ P_Success(j, Write(fs, outPath[j], 0, JsonDump(data[j])),
                 data[j].added)
    /\ UNCHANGED <<entry, src, outPath, chunkVars, nImages, markdown_path, ocr,
                   keep_markdown, cleanup_temp, file_locks, data>>
    /\ UNCHANGED engineVars


\* ------------------------------------------- process_batch: the semaphore
\* A semaphore that never makes a task wait.
Locked_Never == FALSE

\* asyncio.Semaphore.locked(): no permit is free, or a task is queued.
Locked == semaphore = 0 \/ waiters # <<>>

\* Entry of `async with semaphore` by the next task gather() created
\* (doclingbackup.py line 380, md_converter.py line 653): take a permit and
\* go on, or queue.
B_Start(j) ==
    /\ pc[j] = "new" /\ running = 0
    /\ \A k \in Jobs : k < j => pc[k] # "new"
    /\ IF Locked
       THEN /\ waiters' = Append(waiters, j)
            /\ pc' = Set(pc, j, "waiting")
            /\ UNCHANGED <<semaphore, running>>
       ELSE /\ semaphore' = semaphore - 1
            /\ pc' = Set(pc, j, "admitted")
            /\ running' = j
            /\ UNCHANGED waiters
    /\ UNCHANGED <<entry, src, outPath, fs, chunkVars, procVars, max_concurrent,
                   batchVars>>
    /\ UNCHANGED engineVars

\* The outcome of job j as the batch call hands it back: the dict returned by
\* process (it names its input_source), or the path / None of
\* convert_single_async.
Outcome(j) ==
    [input_source |-> j, success |-> result[j].success,
     num_chunks |-> result[j].num_chunks]

\* A gather that lists the outcomes in the order the jobs ended.
Gather_AsCompleted(order) == [k \in 1..Len(order) |-> Outcome(order[k])]

\* asyncio.gather(*tasks): the list of the tasks' results, in the order of
\* the tasks, whatever the order they ended in.
Gather(order) == [k \in 1..NumSources |-> Outcome(k)]

\* doclingbackup.py lines 402-409, md_converter.py lines 661-676: every task
\* has ended, gather hands back the list and the batch call returns it.
B_Return ==
    /\ \A j \in Jobs : pc[j] = "done"
    /\ \A j \in Jobs : entry[j] \in {"process_batch", "batch_convert_async"}
    /\ results = <<>>
    /\ results' = Gather(completed)
    /\ UNCHANGED <<entry, src, pc, running, outPath, fs, chunkVars, procVars,
                   gateVars, completed>>
    /\ UNCHANGED engineVars

\* chunk_document not called on an input of its own: no temporary file.
NoInput ==
    /\ input_file = [url |-> FALSE, found |-> TRUE, ext |-> "pdf", readable |-> TRUE,
                     text |-> [layout |-> "plain", value |-> [kind |-> "number", a |-> 0, items |-> <<>>]]]
    /\ temp_file = NoPath
    /\ temp_md_file = NoPath
    /\ failed = ""
    /\ raised = FALSE

NoExtraction ==
    /\ table_idx = [j \in Jobs |-> 0]
    /\ markdown_content = <<>>
    /\ table_data = <<>>
    /\ extracted = NotCalled
    /\ section_titles = <<>>
    /\ documents = [j \in Jobs |-> DocLines(1)]

\* ------------------------------------------------------------------ Init
Images == 1..MaxImages

\* Lines 102-105: one task per match of the image pattern, numbered from 1.
OcrTasks(n) == [k \in Images |-> IF k <= n THEN "new" ELSE "none"]

Stems == 1..NumSources

\* A readable markdown file, a readable document the engine converts, one it
\* fails on, and paths that do not exist.
Sources(stems) ==
    {[ext |-> "md", stem |-> st, readable |-> r, converts |-> TRUE] :
        st \in stems, r \in BOOLEAN}
    \cup {[ext |-> "pdf", stem |-> st, readable |-> TRUE, converts |-> c] :
        st \in stems, c \in BOOLEAN}
    \cup {[ext |-> "pdf", stem |-> st, readable |-> FALSE, converts |-> TRUE] :
        st \in stems}

\* A complete output file left by an earlier run (document 0).
Previous == Header(0) \o <<Tok("chunk", 0, "text", 0, 0)>> \o Footer(0)

\* The files present before the call: the readable markdown inputs and,
\* when prev, an earlier version of the first job's output.
InitialFiles(srcs, outs, prev) ==
    LET ins == {InPath(srcs[j]) : j \in {k \in Jobs : srcs[k].ext = "md"
                                                      /\ srcs[k].readable}}
        dom == ins \cup (IF prev THEN {outs[1]} ELSE {})
    IN [q \in dom |-> IF q \in ins THEN MdText(q[2]) ELSE Previous]

InitCommon(srcs, prev) ==
    /\ src = srcs
    /\ outPath = [j \in Jobs |-> OutPath(srcs[j].stem)]
    /\ fs = InitialFiles(srcs, [j \in Jobs |-> OutPath(srcs[j].stem)], prev)
    /\ running = 0
    /\ i = [j \in Jobs |-> 0]
    /\ Index = [j \in Jobs |-> 0]
    /\ is_first_chunk = [j \in Jobs |-> TRUE]
    /\ chunks = [j \in Jobs |-> <<>>]
    /\ pos = [j \in Jobs |-> 0]
    /\ isOpen = [j \in Jobs |-> FALSE]
    /\ ret = [j \in Jobs |-> -1]
    /\ errors = [j \in Jobs |-> 0]
    /\ warnings = [j \in Jobs |-> 0]
    /\ skips = [j \in Jobs |-> 0]
    /\ result = [j \in Jobs |-> Pending]
    /\ temp_dir = TRUE
    /\ file_locks = {}
    /\ data = [j \in Jobs |-> NoData]
    /\ waiters = <<>>
    /\ completed = <<>>
    /\ results = <<>>
    /\ work = {}
    /\ converter_local = {}
    /\ engines = {}
    /\ last = NoCall
    /\ ncalls = 0
    /\ recognized = [k \in Images |-> ""]
    /\ ocr_results = <<>>

Only1(v, dflt) == [j \in Jobs |-> IF j = 1 THEN v ELSE dflt]

IdleSource == [ext |-> "pdf", stem |-> 1, readable |-> FALSE, converts |-> TRUE]

\* One call of process_markdown_file (chunking.py main), of chunk_document
\* (process_input_output) or of DocumentPipeline.process (doclingbackup.py
\* main), made as job 1.
Init ==
    \E e \in {"process_markdown_file", "chunk_document", "process"},
       sr \in Sources({1}), nt \in 0..MaxTables, nx \in 0..MaxTexts,
       ni \in 0..MaxImages, cl \in BOOLEAN, prev \in BOOLEAN,
       o \in BOOLEAN, km \in BOOLEAN, ct \in BOOLEAN :
        /\ e = "process_markdown_file" => sr.ext = "md" /\ ~o /\ ~km /\ ct /\ ni = 0
        /\ e = "chunk_document" =>
              sr = IdleSource /\ ~o /\ ~km /\ ct /\ ni = 0 /\ nt = 0 /\ ~prev
        /\ ~o => ni = 0
        /\ entry = Only1(e, "none")
        /\ pc = Only1(CASE e = "process_markdown_file" -> "pmf_read"
                        [] e = "chunk_document" -> "cd_body"
                        [] OTHER -> "admitted", "idle")
        /\ InitCommon(Only1(sr, IdleSource), prev)
        /\ markdown_path = Only1(IF e = "process_markdown_file" THEN InPath(sr)
                                 ELSE NoPath, NoPath)
        /\ nTables = Only1(nt, 0)
        /\ nTexts = Only1(nx, 0)
        /\ nImages = Only1(ni, 0)
        /\ clean = Only1(cl, TRUE)
        /\ ocr = o
        /\ keep_markdown = km
        /\ cleanup_temp = ct
        /\ max_concurrent = 1
        /\ semaphore = 0
        /\ img = OcrTasks(0)
        /\ NoExtraction
        /\ NoInput

Chunking(j) ==
    \/ PMF_Read(j)
    \/ PMF_Open(j)
    \/ PMF_Header(j)
    \/ PMF_Table(j)
    \/ PMF_Text(j)
    \/ PMF_Close(j)

Converting(j) ==
    \/ P_Start(j)
    \/ P_Converted(j)
    \/ P_Saved(j)

Enriching(j) ==
    \/ P_OcrDone(j)
    \/ P_OcrWrite(j)

Next ==
    \E j \in Jobs :
        \/ Chunking(j)
        \/ CD_Chunk(j)
        \/ CD_Save(j)
        \/ Converting(j)
        \/ P_AfterChunk(j)
        \/ Enriching(j)

Spec == Init /\ [][Next]_vars


\* ------------------------------------------------- one batch of NumSources
\* The sources of a job of a batch: a readable markdown file, a readable
\* document the engine converts, or a path that does not exist; every source
\* has a file stem of its own, except that the second may carry the first's.
BatchSource(j) ==
    {sr \in Sources(IF j = 2 THEN {1, 2} ELSE {j}) :
        sr.converts /\ (sr.ext = "md" => sr.readable)}

BatchSources == {srcs \in [Jobs -> Sources(Stems)] : \A j \in Jobs : srcs[j] \in BatchSource(j)}

\* One call of process_batch (doclingbackup.py main) or of
\* batch_convert_async (md_converter.py main) over NumSources sources: the
\* tasks are created, none has run.
InitBatch ==
    \E e \in {"process_batch", "batch_convert_async"}, srcs \in BatchSources,
       k \in 1..MaxConcurrent, ct \in BOOLEAN :
        /\ e = "batch_convert_async" => ~ct
        /\ entry = [j \in Jobs |-> e]
        /\ pc = [j \in Jobs |-> "new"]
        /\ InitCommon(srcs, FALSE)
        /\ markdown_path = [j \in Jobs |-> NoPath]
        /\ nTables = [j \in Jobs |-> 1]
        /\ nTexts = [j \in Jobs |-> 0]
        /\ nImages = [j \in Jobs |-> 0]
        /\ clean = [j \in Jobs |-> TRUE]
        /\ ocr = FALSE
        /\ keep_markdown = FALSE
        /\ cleanup_temp = ct
        /\ max_concurrent = k
        /\ semaphore = k
        /\ img = OcrTasks(0)
        /\ NoExtraction
        /\ NoInput

NextBatch ==
    \/ B_Return
    \/ \E j \in Jobs :
        \/ B_Start(j)
        \/ PMF_Read(j)
        \/ PMF_Open(j)
        \/ PMF_Header(j)
        \/ PMF_Table(j)
        \/ PMF_Close(j)
        \/ Converting(j)
        \/ P_LockAcquired(j)
        \/ P_AfterChunk(j)

SpecBatch == InitBatch /\ [][NextBatch]_vars

\* A batch of markdown documents whose texts differ, chunked by the one
\* MarkdownChunker of the pipeline (doclingbackup.py line 146).
InitShared ==
    \E k \in 1..MaxConcurrent, srcs \in BatchSources :
        /\ \A j \in Jobs : srcs[j].ext = "md"
        /\ entry = [j \in Jobs |-> "process_batch"]
        /\ pc = [j \in Jobs |-> "new"]
        /\ InitCommon(srcs, FALSE)
        /\ markdown_path = [j \in Jobs |-> NoPath]
        /\ nTables = [j \in Jobs |-> 1]
        /\ nTexts = [j \in Jobs |-> 0]
        /\ nImages = [j \in Jobs |-> 0]
        /\ clean = [j \in Jobs |-> TRUE]
        /\ ocr = FALSE
        /\ keep_markdown = FALSE
        /\ cleanup_temp = FALSE
        /\ max_concurrent = k
        /\ semaphore = k
        /\ img = OcrTasks(0)
        /\ table_idx = [j \in Jobs |-> 0]
        /\ markdown_content = <<>>
        /\ table_data = <<>>
        /\ extracted = NotCalled
        /\ section_titles = <<>>
        /\ documents = [j \in Jobs |-> DocLines(j)]
        /\ NoInput

NextShared ==
    \/ B_Return
    \/ \E j \in Jobs :
        \/ B_Start(j)
        \/ P_Start(j)
        \/ PMF_Read(j)
        \/ PMF_Open(j)
        \/ PMF_Header(j)
        \/ PMF_Table(j)
        \/ PMF_Close(j)
        \/ P_AfterChunk(j)

SpecShared == InitShared /\ [][NextShared]_vars

\* A batch in a directory the caller supplied, its first source of any kind,
\* the others documents the converter accepts.
InitBatchFair ==
    /\ InitBatch
    /\ ~cleanup_temp
    /\ \A j \in Jobs : j > 1 => (src[j].ext = "pdf" /\ ValidInput(src[j]))

\* The event loop runs a task that is ready: a batch in which some task can
\* take a step takes one.
SpecBatchFair == InitBatchFair /\ [][NextBatch]_vars /\ WF_vars(NextBatch)


\* --------------------------------------- the conversion entry points
Callers == 1..NumCallers
Caller(t) == <<"caller", t>>

\* The file extensions tried: two supported ones, an unsupported one, none.
Exts == {"pdf", "txt", "md", ""}

\* Storage shared by every thread of the process.
Slot_Global(module, t) == <<module, LoopThread>>

\* The storage behind `_converter_local = threading.local()` of a module
\* (md_converter.py line 71): one set of attributes per thread.
Slot(module, t) == <<module, t>>

HasConverter(sl) == \E r \in converter_local : r.slot = sl

\* create_threaded_converter: a new DocumentConverter built with the settings
\* given, the n-th instance thread t builds through the module.
create_threaded_converter(module, t, cfg) ==
    [module |-> module, by |-> t,
     n |-> Cardinality({e \in engines : e.module = module /\ e.by = t}) + 1,
     cfg |-> cfg]

\* get_thread_local_converter (md_converter.py lines 297-321,
\* document_process.py lines 241-265) called by thread t: the thread's
\* converter if it has one, whatever the settings asked for; else a new one.
get_thread_local_converter(module, t, cfg) ==
    IF HasConverter(Slot(module, t))
    THEN (CHOOSE r \in converter_local : r.slot = Slot(module, t)).converter
    ELSE create_threaded_converter(module, t, cfg)

\* The call made, as `last` keeps it.
Call(fn, t, ext, cfg, outcome, c) ==
    [fn |-> fn, thread |-> t, ext |-> ext, cfg |-> cfg, outcome |-> outcome,
     converter |-> c, built |-> c # NoConverter /\ c \notin engines]

\* Thread t gets its converter and converts with it; the conversion succeeds
\* or not.
UseEngine(fn, module, t, ext, cfg) ==
    LET c == get_thread_local_converter(module, t, cfg)
    IN /\ engines' = engines \cup {c}
       /\ converter_local' = converter_local \cup {[slot |-> Slot(module, t), converter |-> c]}
       /\ \E ok \in BOOLEAN :
            last' = Call(fn, t, ext, cfg, IF ok THEN "path" ELSE "None", c)

\* The call ends without a converter: outcome is what it returns.
NoEngine(fn, t, ext, cfg, outcome) ==
    /\ last' = Call(fn, t, ext, cfg, outcome, NoConverter)
    /\ UNCHANGED <<engines, converter_local>>

\* The body shared by convert_single_sync (lines 451-498) and
\* convert_single_async (lines 593-633) run on thread t: validate_input,
\* the TXT branch, the engine; every exception is caught and gives None.
ConvertSingle(fn, t, ext, cfg) ==
    IF ~Supported(ext)
    THEN NoEngine(fn, t, ext, cfg, "None")
    ELSE IF ext = "txt"
    THEN \E ok \in BOOLEAN : NoEngine(fn, t, ext, cfg, IF ok THEN "path" ELSE "None")
    ELSE UseEngine(fn, "md_converter", t, ext, cfg)

Idle ==
    UNCHANGED <<entry, src, pc, running, outPath, fs, chunkVars, procVars,
                gateVars, batchVars, work, ocrVars, titleVars, inputVars>>

\* convert_single_sync(input_source, output_dir, converter_config) called on
\* thread t.
S_ConvertSingleSync(t, ext, cfg) ==
    /\ ncalls < MaxCalls
    /\ ncalls' = ncalls + 1
    /\ ConvertSingle("convert_single_sync", Caller(t), ext, cfg)
    /\ Idle

\* convert_single_async: the conversion runs on the one thread of an
\* executor made for this call (lines 607-611).
S_ConvertSingleAsync(ext, cfg) ==
    /\ ncalls < MaxCalls
    /\ ncalls' = ncalls + 1
    /\ ConvertSingle("convert_single_async", Executor(ncalls + 1), ext, cfg)
    /\ Idle

\* The settings chunk_document hands to get_thread_local_converter
\* (document_process.py lines 545-548): its ocr_enabled and ocr_lang; the
\* other parameters take the defaults of lines 243-246.
ChunkDocumentConfig(cfg) == [cfg EXCEPT !.queue_size = 100, !.batches = <<24, 32, 16>>]

\* chunk_document called on thread t for a document that needs conversion
\* (document_process.py lines 542-551).
S_ChunkDocument(t, cfg) ==
    /\ ncalls < MaxCalls
    /\ ncalls' = ncalls + 1
    /\ UseEngine("chunk_document", "document_process", Caller(t), "pdf",
                 ChunkDocumentConfig(cfg))
    /\ Idle

\* A process that makes calls of the conversion entry points from its
\* threads, none made yet.
InitSync ==
    /\ entry = [j \in Jobs |-> "none"]
    /\ pc = [j \in Jobs |-> "idle"]
    /\ InitCommon([j \in Jobs |-> IdleSource], FALSE)
    /\ markdown_path = [j \in Jobs |-> NoPath]
    /\ nTables = [j \in Jobs |-> 0]
    /\ nTexts = [j \in Jobs |-> 0]
    /\ nImages = [j \in Jobs |-> 0]
    /\ clean = [j \in Jobs |-> TRUE]
    /\ ocr = FALSE
    /\ keep_markdown = FALSE
    /\ cleanup_temp = FALSE
    /\ max_concurrent = 1
    /\ semaphore = 1
    /\ img = OcrTasks(0)
    /\ NoExtraction
    /\ NoInput

NextSync ==
    \/ \E t \in Callers, ext \in Exts, cfg \in Configs : S_ConvertSingleSync(t, ext, cfg)
    \/ \E ext \in Exts, cfg \in Configs : S_ConvertSingleAsync(ext, cfg)
    \/ \E t \in Callers, cfg \in Configs : S_ChunkDocument(t, cfg)

SpecSync == InitSync /\ [][NextSync]_vars

\* ------------------------------------------- extract_and_ocr_images
\* What decode_and_ocr gives for an image: text, nothing readable (an empty
\* result or blank text), or an exception (bad base64, an image that cannot be
\* opened, a recognition error).
Recognitions == {"text", "empty", "failed"}

OcrStarted == \A k \in Images : img[k] # "new"

OcrIdle ==
    UNCHANGED <<entry, src, running, outPath, fs, chunkVars, procVars,
                max_concurrent, batchVars, work, syncVars, titleVars, inputVars>>

\* Entry of `async with semaphore` (line 98) by the next task gather()
\* created: take a permit and hand decode_and_ocr to the executor (line 75),
\* or queue.
O_Start(k) ==
    /\ pc[1] = "gathering" /\ img[k] = "new"
    /\ \A h \in Images : h < k => img[h] # "new"
    /\ IF Locked
       THEN /\ waiters' = Append(waiters, k)
            /\ img' = Set(img, k, "waiting")
            /\ UNCHANGED semaphore
       ELSE /\ semaphore' = semaphore - 1
            /\ img' = Set(img, k, "running")
            /\ UNCHANGED waiters
    /\ UNCHANGED <<pc, recognized, ocr_results>>
    /\ OcrIdle

\* A task woken by a release goes on to line 75.
O_Admitted(k) ==
    /\ pc[1] = "gathering" /\ img[k] = "admitted" /\ OcrStarted
    /\ img' = Set(img, k, "running")
    /\ UNCHANGED <<pc, recognized, ocr_results, gateVars>>
    /\ OcrIdle

\* decode_and_ocr (lines 68-72) ends on its executor thread.
O_Recognized(k) ==
    /\ pc[1] = "gathering" /\ img[k] = "running"
    /\ \E r \in Recognitions : recognized' = Set(recognized, k, r)
    /\ img' = Set(img, k, "recognized")
    /\ UNCHANGED <<pc, ocr_results, gateVars>>
    /\ OcrIdle

\* Lines 77-92 and the end of `async with semaphore`: the task returns its
\* dict or None and gives its permit to the oldest waiter, if any.
O_Done(k) ==
    /\ pc[1] = "gathering" /\ img[k] = "recognized" /\ OcrStarted
    /\ IF waiters # <<>>
       THEN /\ img' = [img EXCEPT ![k] = "returned", ![Head(waiters)] = "admitted"]
            /\ waiters' = Tail(waiters)
            /\ UNCHANGED semaphore
       ELSE /\ img' = Set(img, k, "returned")
            /\ semaphore' = semaphore + 1
            /\ UNCHANGED waiters
    /\ UNCHANGED <<pc, recognized, ocr_results>>
    /\ OcrIdle

\* Lines 53-55 (no image: return []) and lines 107-113: gather hands back
\* the tasks' results in task order, the None results are filtered out.
O_Return ==
    /\ pc[1] = "gathering"
    /\ \A k \in Images : img[k] \in {"none", "returned"}
    /\ ocr_results' = OcrResults(nImages[1], {k \in Images : recognized[k] = "text"})
    /\ pc' = Set(pc, 1, "done")
    /\ UNCHANGED <<img, recognized, gateVars>>
    /\ OcrIdle

\* One call of extract_and_ocr_images(markdown_path, languages,
\* max_concurrent) on a markdown file with n embedded images: the tasks are
\* created, none has run.
InitOcr ==
    \E n \in 0..MaxImages, m \in 1..MaxConcurrent :
        /\ entry = Only1("extract_and_ocr_images", "none")
        /\ pc = Only1("gathering", "idle")
        /\ InitCommon(Only1([ext |-> "md", stem |-> 1, readable |-> TRUE,
                             converts |-> TRUE], IdleSource), FALSE)
        /\ markdown_path = Only1(InPath(src[1]), NoPath)
        /\ nTables = [j \in Jobs |-> 0]
        /\ nTexts = [j \in Jobs |-> 0]
        /\ nImages = Only1(n, 0)
        /\ clean = [j \in Jobs |-> TRUE]
        /\ ocr = TRUE
        /\ keep_markdown = FALSE
        /\ cleanup_temp = FALSE
        /\ max_concurrent = m
        /\ semaphore = m
        /\ img = OcrTasks(n)
        /\ NoExtraction
        /\ NoInput

NextOcr ==
    \/ O_Return
    \/ \E k \in Images :
        \/ O_Start(k)
        \/ O_Admitted(k)
        \/ O_Recognized(k)
        \/ O_Done(k)

SpecOcr == InitOcr /\ [][NextOcr]_vars

\* ----------------------- one call of the table title extraction
Blank == <<>>
Row == <<Run("|", 1), Run(" ", 1), Run("a", 3), Run(" ", 1), Run("|", 1)>>
DashSeparator == <<Run("|", 1), Run("-", 3), Run("|", 1)>>
ColonSeparator == <<Run("|", 1), Run(":", 1), Run("-", 2), Run("|", 1)>>
Heading == <<Run("#", 2), Run(" ", 1), Run("a", 18)>>
BareHeading == <<Run("#", 2)>>
PlainLine == <<Run(" ", 2), Run("a", 30)>>
ShortLine == <<Run("a", 10)>>
SubtitleLine == <<Run("(", 1), Run("a", 11), Run(")", 1)>>
BulletLine == <<Run("*", 1), Run(" ", 1), Run("a", 20)>>

\* The lines other than blank lines and table rows.
LongHeading == <<Run("#", 2), Run(" ", 1), Run("a", 120)>>

MarkedLines ==
    {DashSeparator, ColonSeparator, Heading, LongHeading, BareHeading, PlainLine,
     ShortLine, SubtitleLine, BulletLine}

PlainRow == << <<"a">>, <<"1">> >>
FiscalRow == << <<"F", "Y">>, <<"2", "0", "2", "4">> >>
SplitRow == << <<"F">>, <<"Y">> >>

\* The grids of at most MaxRows rows.
Grids == UNION {[1..n -> {PlainRow, FiscalRow, SplitRow}] : n \in 0..MaxRows}

\* A grid of two rows; one of three rows with a second row of periods.
TwoRowGrid == <<PlainRow, PlainRow>>
PeriodGrid == <<PlainRow, FiscalRow, PlainRow>>

OneTable == <<Heading, SubtitleLine, Row, DashSeparator, Row, Row>>

\* One call of _extract_markdown_table_title_and_header(idx, grid) made by
\* the table loop of process_markdown_file (line 206) after the markdown was
\* read into `lines` (lines 150-151).
TitleCall(lines, idx, grid) ==
    /\ entry = Only1("process_markdown_file", "none")
    /\ pc = Only1("extract", "idle")
    /\ InitCommon(Only1([ext |-> "md", stem |-> 1, readable |-> TRUE,
                         converts |-> TRUE], IdleSource), FALSE)
    /\ markdown_path = Only1(InPath(src[1]), NoPath)
    /\ nTables = Only1(MaxTables, 0)
    /\ nTexts = [j \in Jobs |-> 0]
    /\ nImages = [j \in Jobs |-> 0]
    /\ clean = [j \in Jobs |-> TRUE]
    /\ ocr = FALSE
    /\ keep_markdown = FALSE
    /\ cleanup_temp = FALSE
    /\ max_concurrent = 1
    /\ semaphore = 0
    /\ img = OcrTasks(0)
    /\ table_idx = Only1(idx, 0)
    /\ markdown_content = lines
    /\ table_data = grid
    /\ extracted = NotCalled
    /\ section_titles = <<>>
    /\ documents = [j \in Jobs |-> DocLines(1)]
    /\ NoInput

\* The call on a text of at most MaxLines lines, of which at most MaxMarked
\* are neither blank nor a table row, with a grid of two rows; or on no
\* text or the text of one table under a heading and a subtitle, with any
\* grid.
InitTitle ==
    \E idx \in 0..(MaxTables - 1) :
        \/ \E n \in 1..MaxLines :
             \E M \in {X \in SUBSET (1..n) : Cardinality(X) <= MaxMarked} :
                \E f \in [M -> MarkedLines], g \in [(1..n) \ M -> {Blank, Row}] :
                    TitleCall([k \in 1..n |-> IF k \in M THEN f[k] ELSE g[k]],
                              idx, TwoRowGrid)
        \/ \E lines \in {<<>>, <<Blank>>, OneTable}, grid \in Grids :
             TitleCall(lines, idx, grid)

\* s[:n]
RECURSIVE Take(_, _)
Take(s, n) ==
    IF s = <<>> \/ n <= 0 THEN <<>>
    ELSE IF s[1].n >= n THEN <<Run(s[1].c, n)>>
    ELSE <<s[1]>> \o Take(Tail(s), n - s[1].n)

\* The 15 characters of "Unknown Section" (line 331).
UnknownSection == <<Run("Unknown Section", 15)>>

\* What _extract_table_title returns (lines 721-792): a caption, title or
\* heading cut to 100 characters, or the 16 characters of "Page 1 - Table 1".
TableTitles == {<<Run("a", 100)>>, <<Run("Page 1 - Table 1", 16)>>}

\* Lines 209-212: the title found in the markdown, else the other method's.
TableSectionTitle(markdown_title, other) ==
    IF Truthy(markdown_title) THEN markdown_title ELSE other

\* Lines 331-370: the heading recovered for a text chunk, cut to 100
\* characters, or the sentinel.
TextSectionTitle(heading) ==
    Take(IF Truthy(heading) THEN Take(heading, 100) ELSE UnknownSection, 100)

\* Lines 206-240: the call, its return, and the table chunk's section_title.
T_Extract ==
    /\ pc[1] = "extract"
    /\ extracted' = extract_markdown_table_title_and_header(
                        markdown_content, table_idx[1], table_data)
    /\ \E other \in TableTitles :
         section_titles' = Append(section_titles,
             [content_type |-> "table", recovered |-> extracted'.table_title,
              section_title |-> TableSectionTitle(extracted'.table_title, other)])
    /\ pc' = Set(pc, 1, "done")
    /\ UNCHANGED <<entry, src, running, outPath, fs, chunkVars, procVars, gateVars,
                   batchVars, work, syncVars, ocrVars, inputVars, markdown_content, table_data,
                   documents>>

\* Lines 330-373: a text chunk and its section_title, from the heading its
\* metadata or first lines give, if any.
T_TextChunk(heading) ==
    /\ pc[1] = "extract"
    /\ section_titles' = Append(section_titles,
            [content_type |-> "text", recovered |-> heading,
             section_title |-> TextSectionTitle(heading)])
    /\ pc' = Set(pc, 1, "done")
    /\ UNCHANGED <<entry, src, running, outPath, fs, chunkVars, procVars, gateVars,
                   batchVars, work, syncVars, ocrVars, inputVars, markdown_content, table_data,
                   extracted, documents>>

NextTitle ==
    \/ T_Extract
    \/ \E heading \in {None, <<>>, <<Run("a", 18)>>, <<Run("a", 120)>>} : T_TextChunk(heading)

SpecTitle == InitTitle /\ [][NextTitle]_vars

\* ------------------------------------------- chunk_document: the input
MaxItems == 2

\* The files tempfile.NamedTemporaryFile(delete=False) creates: the downloaded
\* copy (line 291) and the .md copy of a .txt input (line 509).
TempFile == <<"tmpfile", 0, 0>>
TempMdFile == <<"tmpfile", 0, 1>>

\* JSON values: objects, numbers, and arrays of these.
JsonObject(a) == [kind |-> "object", a |-> a, items |-> <<>>]
JsonNumber(a) == [kind |-> "number", a |-> a, items |-> <<>>]
JsonArray(items) == [kind |-> "array", a |-> 0, items |-> items]
JsonItems == {JsonObject(1), JsonObject(2), JsonNumber(1)}
JsonValues ==
    JsonItems \cup {JsonArray(items) : items \in UNION {[1..n -> JsonItems] : n \in 0..MaxItems}}

\* A text: a JSON value laid out compactly or indented, or no JSON at all.
JsonText(layout, value) == [layout |-> layout, value |-> value]
RawText == JsonText("raw", JsonNumber(0))
JsonTexts == {JsonText(l, v) : l \in {"compact", "indented"}, v \in JsonValues} \cup {RawText}
PlainText == JsonText("plain", JsonNumber(0))

\* json.loads accepts the text; what it returns then.
IsJson(text) == text.layout \in {"compact", "indented"}
json_loads(text) == text.value

\* json.dumps(value, indent=2, ensure_ascii=False)
json_dumps(value) == JsonText("indented", value)

\* Chunk(...) of lines 368-375, 384-391, 399-406.
JsonChunk(idx, ctype, content, title) ==
    [k |-> "chunk", idx |-> idx, ctype |-> ctype, n |-> idx, d |-> 1,
     content |-> content, section_title |-> title]

\* The items taken from the last to the first.
JsonArrayChunks_Reversed(items) ==
    [k \in 1..Len(items) |->
        JsonChunk(k - 1, "json_array_item", json_dumps(items[Len(items) + 1 - k]),
                  <<"Item", k>>)]

\* Lines 364-376: enumerate(json_data), one chunk per item.
JsonArrayChunks(items) ==
    [k \in 1..Len(items) |->
        JsonChunk(k - 1, "json_array_item", json_dumps(items[k]), <<"Item", k>>)]

\* Lines 357-407 once the text is parsed.
JsonChunksOf(json_data, formatted_content) ==
    CASE json_data.kind = "array" -> JsonArrayChunks(json_data.items)
      [] json_data.kind = "object" ->
            <<JsonChunk(0, "json_object", formatted_content, <<"JSON Object", 0>>)>>
      [] OTHER -> <<JsonChunk(0, "json", formatted_content, <<"JSON Data", 0>>)>>

\* chunk_json_directly (lines 303-443) on a file holding `text`.  readable:
\* the file decodes as UTF-8; tokenizer, save: loading the tokenizer and
\* writing the output succeed.  Lines 349-354: when json.loads raises
\* JSONDecodeError, formatted_content is the raw text and json_data is left
\* unassigned, so that line 360 raises UnboundLocalError, which the handler
\* of line 433 turns into `return 0`.
chunk_json_directly(text, readable, tokenizer, save) ==
    IF ~readable THEN [chunks |-> <<>>, ret |-> 0, saved |-> FALSE, failed |-> "read"]
    ELSE IF ~tokenizer
    THEN [chunks |-> <<>>, ret |-> 0, saved |-> FALSE, failed |-> "tokenizer"]
    ELSE IF ~IsJson(text)
    THEN [chunks |-> <<>>, ret |-> 0, saved |-> FALSE, failed |-> ""]
    ELSE LET built == JsonChunksOf(json_loads(text), json_dumps(json_loads(text)))
         IN IF save
            THEN [chunks |-> built, ret |-> Len(built), saved |-> TRUE, failed |-> ""]
            ELSE [chunks |-> built, ret |-> 0, saved |-> FALSE, failed |-> "save"]

\* Lines 473-489: a URL is downloaded into a temporary file, a local path
\* must exist.
CD_Resolve(j) ==
    /\ pc[j] = "cd_input"
    /\ IF input_file.url
       THEN IF input_file.found
            THEN /\ temp_file' = TempFile
                 /\ fs' = OpenW(fs, TempFile)
                 /\ pc' = Set(pc, j, "cd_route")
                 /\ UNCHANGED <<ret, running, errors, failed>>
            ELSE /\ errors' = Set(errors, j, errors[j] + 1)
                 /\ failed' = "download"
                 /\ Return(j, 0)
                 /\ UNCHANGED <<temp_file, fs>>
       ELSE IF input_file.found
            THEN /\ pc' = Set(pc, j, "cd_route")
                 /\ UNCHANGED <<ret, running, errors, failed, temp_file, fs>>
            ELSE /\ errors' = Set(errors, j, errors[j] + 1)
                 /\ Return(j, 0)
                 /\ UNCHANGED <<temp_file, fs, failed>>
    /\ UNCHANGED <<entry, src, outPath, nTables, nTexts, clean, table_idx, i, Index,
                   is_first_chunk, chunks, pos, isOpen, warnings, skips,
                   procVars, gateVars, batchVars, work, syncVars, ocrVars, titleVars,
                   input_file, temp_md_file, raised>>

\* Lines 494-504 and chunk_json_directly: a .json input is chunked directly.
CD_Json(j) ==
    /\ pc[j] = "cd_route"
    /\ input_file.ext = "json"
    /\ \E tokenizer \in BOOLEAN, save \in BOOLEAN :
         LET r == chunk_json_directly(input_file.text, input_file.readable,
                                      tokenizer, save)
         IN /\ chunks' = Set(chunks, j, r.chunks)
            /\ fs' = TempFilesRemoved(
                        IF r.saved
                        THEN Write(OpenW(fs, outPath[j]), outPath[j], 0,
                                   JsonDumpList(r.chunks, j))
                        ELSE fs)
            /\ failed' = r.failed
            /\ errors' = Set(errors, j, errors[j] + (IF r.saved THEN 0 ELSE 1))
            /\ Return(j, r.ret)
    /\ UNCHANGED <<entry, src, outPath, nTables, nTexts, clean, table_idx, i, Index,
                   is_first_chunk, pos, isOpen, warnings, skips,
                   procVars, gateVars, batchVars, work, syncVars, ocrVars, titleVars,
                   input_file, temp_file, temp_md_file, raised>>

\* Lines 508-515: a .txt input is copied into a temporary .md file.  The
\* file is created first; reading the input is outside every `try`.
CD_Txt(j) ==
    /\ pc[j] = "cd_route"
    /\ input_file.ext = "txt"
    /\ temp_md_file' = TempMdFile
    /\ fs' = OpenW(fs, TempMdFile)
    /\ IF input_file.readable
       THEN /\ pc' = Set(pc, j, "cd_tokenizer")
            /\ UNCHANGED <<raised, failed, running>>
       ELSE /\ raised' = TRUE
            /\ failed' = "copy"
            /\ pc' = Set(pc, j, "done")
            /\ running' = 0
    /\ UNCHANGED <<entry, src, outPath, chunkVars, procVars, gateVars, batchVars,
                   work, syncVars, ocrVars, titleVars, input_file, temp_file>>

\* Any other suffix: the input goes to the converter as it is.
CD_Other(j) ==
    /\ pc[j] = "cd_route"
    /\ input_file.ext \notin {"json", "txt"}
    /\ pc' = Set(pc, j, "cd_tokenizer")
    /\ UNCHANGED <<entry, src, running, outPath, fs, chunkVars, procVars, gateVars,
                   batchVars, engineVars>>

\* Lines 519-540: the tokenizer is loaded, or the call cleans up and returns 0.
CD_Tokenizer(j) ==
    /\ pc[j] = "cd_tokenizer"
    /\ \E ok \in BOOLEAN :
         IF ok
         THEN /\ pc' = Set(pc, j, "cd_convert")
              /\ UNCHANGED <<ret, running, errors, failed, fs>>
         ELSE /\ errors' = Set(errors, j, errors[j] + 1)
              /\ failed' = "tokenizer"
              /\ fs' = TempFilesRemoved(fs)
              /\ Return(j, 0)
    /\ UNCHANGED <<entry, src, outPath, nTables, nTexts, clean, table_idx, i, Index,
                   is_first_chunk, chunks, pos, isOpen, warnings, skips,
                   procVars, gateVars, batchVars, work, syncVars, ocrVars, titleVars,
                   input_file, temp_file, temp_md_file, raised>>

\* Lines 542-565: the thread's converter converts the input, or the call
\* cleans up and returns 0.
CD_Convert(j) ==
    /\ pc[j] = "cd_convert"
    /\ UseEngine("chunk_document", "document_process", Caller(1),
                 IF input_file.ext = "txt" THEN "md" ELSE input_file.ext,
                 ChunkDocumentConfig(DefaultConfig))
    /\ IF last'.outcome = "path"
       THEN /\ pc' = Set(pc, j, "cd_body")
            /\ UNCHANGED <<ret, running, errors, failed, fs>>
       ELSE /\ errors' = Set(errors, j, errors[j] + 1)
            /\ failed' = "convert"
            /\ fs' = TempFilesRemoved(fs)
            /\ Return(j, 0)
    /\ UNCHANGED <<entry, src, outPath, nTables, nTexts, clean, table_idx, i, Index,
                   is_first_chunk, chunks, pos, isOpen, warnings, skips,
                   procVars, gateVars, batchVars, work, ncalls, ocrVars, titleVars,
                   input_file, temp_file, temp_md_file, raised>>

\* Lines 673-718 when creating the directory or writing the file raises: the
\* handler of line 701 cleans up and returns 0.
CD_SaveFails(j) ==
    /\ pc[j] = "cd_body" /\ MayRun(j)
    /\ i[j] = nTexts[j]
    /\ errors' = Set(errors, j, errors[j] + 1)
    /\ failed' = "save"
    /\ fs' = TempFilesRemoved(fs)
    /\ Return(j, 0)
    /\ UNCHANGED <<entry, src, outPath, nTables, nTexts, clean, table_idx, i, Index,
                   is_first_chunk, chunks, pos, isOpen, warnings, skips,
                   procVars, gateVars, batchVars, work, syncVars, ocrVars, titleVars,
                   input_file, temp_file, temp_md_file, raised>>

\* One call of chunk_document on an input of each kind.
InitInput ==
    \E url \in BOOLEAN, found \in BOOLEAN, ext \in {"json", "txt", "pdf"},
       readable \in BOOLEAN, nx \in 0..MaxTexts, cl \in BOOLEAN :
      \E text \in (IF ext = "json" THEN JsonTexts ELSE {PlainText}) :
        /\ ext = "json" => nx = 0 /\ cl
        /\ ext = "pdf" => readable
        /\ entry = Only1("chunk_document", "none")
        /\ pc = Only1("cd_input", "idle")
        /\ InitCommon([j \in Jobs |-> IdleSource], FALSE)
        /\ markdown_path = [j \in Jobs |-> NoPath]
        /\ nTables = [j \in Jobs |-> 0]
        /\ nTexts = Only1(nx, 0)
        /\ nImages = [j \in Jobs |-> 0]
        /\ clean = Only1(cl, TRUE)
        /\ ocr = FALSE
        /\ keep_markdown = FALSE
        /\ cleanup_temp = FALSE
        /\ max_concurrent = 1
        /\ semaphore = 0
        /\ img = OcrTasks(0)
        /\ NoExtraction
        /\ input_file = [url |-> url, found |-> found, ext |-> ext,
                         readable |-> readable, text |-> text]
        /\ temp_file = NoPath
        /\ temp_md_file = NoPath
        /\ failed = ""
        /\ raised = FALSE

NextInput ==
    \/ CD_Resolve(1)
    \/ CD_Json(1)
    \/ CD_Txt(1)
    \/ CD_Other(1)
    \/ CD_Tokenizer(1)
    \/ CD_Convert(1)
    \/ CD_Chunk(1)
    \/ CD_Save(1)
    \/ CD_SaveFails(1)

SpecInput == InitInput /\ [][NextInput]_vars

\* ------------------------------------------------------ batch_convert_sync
\* input_sources: the i-th source is src[i].
InputSources == [k \in 1..NumSources |-> k]

\* Lines 515-523: the sources validate_input accepts, .txt files apart from
\* the others, each list in input order; the sources it rejects are logged
\* and appear in neither.
txt_files(srcs) ==
    SelectSeq(InputSources, LAMBDA k : ValidInput(srcs[k]) /\ srcs[k].ext = "txt")
other_files(srcs) ==
    SelectSeq(InputSources, LAMBDA k : ValidInput(srcs[k]) /\ srcs[k].ext # "txt")

\* One result appended (lines 528-530, 546-568): the markdown file written
\* under a unique name and its path, or None; st = [fs, results].
AppendResult(srcs, k, st) ==
    IF srcs[k].converts
    THEN LET path == get_unique_filename(st.fs, srcs[k].stem)
         IN [fs |-> [q \in (DOMAIN st.fs) \cup {path} |->
                        IF q = path THEN MdText(k) ELSE st.fs[q]],
             results |-> Append(st.results, [of |-> k, path |-> path])]
    ELSE [fs |-> st.fs, results |-> Append(st.results, [of |-> k, path |-> NoPath])]

RECURSIVE AppendResults(_, _, _)
AppendResults(srcs, ks, st) ==
    IF ks = <<>> THEN st
    ELSE AppendResults(srcs, Tail(ks), AppendResult(srcs, Head(ks), st))

\* batch_convert_sync (lines 500-580).  n: how many results of convert_all
\* were handled before the engine raised (all of them: it did not raise).
batch_convert_sync(srcs, f, n, raises_on_error) ==
    LET txt == AppendResults(srcs, txt_files(srcs), [fs |-> f, results |-> <<>>])
        all == AppendResults(srcs, SubSeq(other_files(srcs), 1, n), txt)
    IN [fs |-> all.fs, results |-> all.results,
        raised |-> n < Len(other_files(srcs)) /\ raises_on_error]

\* One call of batch_convert_sync by thread 1.
BCS_Call ==
    /\ pc[1] = "batch_sync"
    /\ \E n \in 0..Len(other_files(src)), raises_on_error \in BOOLEAN :
         LET r == batch_convert_sync(src, fs, n, raises_on_error)
         IN /\ fs' = r.fs
            /\ raised' = r.raised
            /\ results' = IF r.raised THEN results ELSE r.results
            /\ failed' = IF n < Len(other_files(src)) THEN "convert_all" ELSE ""
    /\ IF other_files(src) # <<>>
       THEN LET c == get_thread_local_converter("md_converter", Caller(1), DefaultConfig)
            IN /\ engines' = engines \cup {c}
               /\ converter_local' = converter_local
                      \cup {[slot |-> Slot("md_converter", Caller(1)), converter |-> c]}
       ELSE UNCHANGED <<engines, converter_local>>
    /\ pc' = Set(pc, 1, "done")
    /\ UNCHANGED <<entry, src, running, outPath, chunkVars, procVars, gateVars,
                   completed, work, last, ncalls, ocrVars, titleVars,
                   input_file, temp_file, temp_md_file>>

\* The sources tried at position k: a .pdf or .txt file, with the stem of the
\* first source or one of its own; accepted and converted, accepted and not
\* converted, or rejected by validate_input.
BatchInput(k) ==
    {x \in [ext : {"pdf", "txt"}, stem : {1, k}, readable : BOOLEAN, converts : BOOLEAN] :
        x.readable \/ x.converts}

InitConvertAll ==
    \E srcs \in [Jobs -> UNION {BatchInput(k) : k \in Jobs}] :
        /\ \A k \in Jobs : srcs[k] \in BatchInput(k)
        /\ entry = Only1("batch_convert_sync", "none")
        /\ pc = Only1("batch_sync", "idle")
        /\ InitCommon(srcs, FALSE)
        /\ markdown_path = [j \in Jobs |-> NoPath]
        /\ nTables = [j \in Jobs |-> 0]
        /\ nTexts = [j \in Jobs |-> 0]
        /\ nImages = [j \in Jobs |-> 0]
        /\ clean = [j \in Jobs |-> TRUE]
        /\ ocr = FALSE
        /\ keep_markdown = FALSE
        /\ cleanup_temp = FALSE
        /\ max_concurrent = 1
        /\ semaphore = 0
        /\ img = OcrTasks(0)
        /\ NoExtraction
        /\ NoInput

NextConvertAll == BCS_Call

SpecConvertAll == InitConvertAll /\ [][NextConvertAll]_vars

\* ------------------------------- save_markdown_async, download_file_async
\* output_path.with_suffix('.tmp')
with_suffix_tmp(path) == <<path[1], path[2], -1>>

\* The destination of the call and what the call is to write: n pieces.
Destination == TmpMd(1, 0)
NewContent(n) == [k \in 1..n |-> Tok("md", -1, "", k, 1)]
OldContent == MdText(0)

\* An error handler that leaves the temp file.
OnError_Keeps(f, tmp) == f

\* The handlers of lines 354-358 and 383-387: the temp file is removed if it
\* exists (and, for the download, if the call got as far as naming it).
OnError(f, tmp) == IF tmp \in DOMAIN f THEN Remove(f, tmp) ELSE f

\* The exception leaves the call after its handler ran.
SV_Raise(j, step) ==
    /\ fs' = OnError(fs, temp_file)
    /\ failed' = step
    /\ raised' = TRUE
    /\ errors' = Set(errors, j, errors[j] + 1)
    /\ pc' = Set(pc, j, "done")

\* download_file_async lines 330-336: the request and its status.
SV_Request(j) ==
    /\ pc[j] = "sv_request"
    /\ \E ok \in BOOLEAN :
         IF ok THEN /\ pc' = Set(pc, j, "sv_open")
                    /\ UNCHANGED <<fs, failed, raised, errors>>
         ELSE SV_Raise(j, "request")
    /\ UNCHANGED <<entry, src, running, outPath, nTables, nTexts, clean, table_idx, i,
                   Index, is_first_chunk, chunks, pos, isOpen, ret, warnings, skips,
                   procVars, gateVars, batchVars, work, syncVars, ocrVars, titleVars,
                   input_file, temp_file, temp_md_file>>

\* Lines 339-341, 370-373: the temp file is named, then opened for writing.
SV_Open(j) ==
    /\ pc[j] = "sv_open"
    /\ temp_file' = with_suffix_tmp(markdown_path[j])
    /\ \E ok \in BOOLEAN :
         IF ok THEN /\ fs' = OpenW(fs, temp_file')
                    /\ pc' = Set(pc, j, "sv_write")
                    /\ UNCHANGED <<failed, raised, errors>>
         ELSE /\ fs' = OnError(fs, temp_file')
              /\ failed' = "open"
              /\ raised' = TRUE
              /\ errors' = Set(errors, j, errors[j] + 1)
              /\ pc' = Set(pc, j, "done")
    /\ UNCHANGED <<entry, src, running, outPath, nTables, nTexts, clean, table_idx, i,
                   Index, is_first_chunk, chunks, pos, isOpen, ret, warnings, skips,
                   procVars, gateVars, batchVars, work, syncVars, ocrVars, titleVars,
                   input_file, temp_md_file>>

\* Lines 342-343, 374: one piece of the content is written to the temp file.
SV_Write(j) ==
    /\ pc[j] = "sv_write"
    /\ i[j] < nTexts[j]
    /\ \E ok \in BOOLEAN :
         IF ok THEN /\ fs' = Write(fs, temp_file, i[j], <<NewContent(nTexts[j])[i[j] + 1]>>)
                    /\ i' = Set(i, j, i[j] + 1)
                    /\ UNCHANGED <<pc, failed, raised, errors>>
         ELSE SV_Raise(j, "write") /\ UNCHANGED i
    /\ UNCHANGED <<entry, src, running, outPath, nTables, nTexts, clean, table_idx,
                   Index, is_first_chunk, chunks, pos, isOpen, ret, warnings, skips,
                   procVars, gateVars, batchVars, work, syncVars, ocrVars, titleVars,
                   input_file, temp_file, temp_md_file>>

\* Lines 350-352, 376-377, 389: temp_file.rename(output_path), return.
SV_Rename(j) ==
    /\ pc[j] = "sv_write"
    /\ i[j] = nTexts[j]
    /\ \E ok \in BOOLEAN :
         IF ok THEN /\ fs' = [q \in ((DOMAIN fs) \cup {markdown_path[j]}) \ {temp_file} |->
                                IF q = markdown_path[j] THEN fs[temp_file] ELSE fs[q]]
                    /\ pc' = Set(pc, j, "done")
                    /\ UNCHANGED <<failed, raised, errors>>
         ELSE SV_Raise(j, "rename")
    /\ UNCHANGED <<entry, src, running, outPath, nTables, nTexts, clean, table_idx, i,
                   Index, is_first_chunk, chunks, pos, isOpen, ret, warnings, skips,
                   procVars, gateVars, batchVars, work, syncVars, ocrVars, titleVars,
                   input_file, temp_file, temp_md_file>>

\* One call of save_markdown_async (the content in one write) or of
\* download_file_async (the content in n pieces), on a destination that holds
\* an earlier version or does not exist, with or without a temp file left
\* over from an earlier run.
InitSave ==
    \E fn \in {"save_markdown_async", "download_file_async"}, n \in 0..MaxTexts,
       previous \in BOOLEAN, stale \in BOOLEAN, old \in {OldContent, Previous} :
        /\ fn = "save_markdown_async" => n = 1
        /\ ~previous => old = OldContent
        /\ entry = Only1(fn, "none")
        /\ pc = Only1(IF fn = "download_file_async" THEN "sv_request" ELSE "sv_open", "idle")
        /\ src = [j \in Jobs |-> IdleSource]
        /\ outPath = [j \in Jobs |-> OutPath(1)]
        /\ fs = [q \in (IF previous THEN {Destination} ELSE {})
                        \cup (IF stale THEN {with_suffix_tmp(Destination)} ELSE {}) |->
                    IF q = Destination THEN old ELSE <<Hole>>]
        /\ running = 0
        /\ i = [j \in Jobs |-> 0]
        /\ Index = [j \in Jobs |-> 0]
        /\ is_first_chunk = [j \in Jobs |-> TRUE]
        /\ chunks = [j \in Jobs |-> <<>>]
        /\ pos = [j \in Jobs |-> 0]
        /\ isOpen = [j \in Jobs |-> FALSE]
        /\ ret = [j \in Jobs |-> -1]
        /\ errors = [j \in Jobs |-> 0]
        /\ warnings = [j \in Jobs |-> 0]
        /\ skips = [j \in Jobs |-> 0]
        /\ result = [j \in Jobs |-> Pending]
        /\ temp_dir = TRUE
        /\ file_locks = {}
        /\ data = [j \in Jobs |-> NoData]
        /\ waiters = <<>>
        /\ completed = <<>>
        /\ results = <<>>
        /\ work = {}
        /\ converter_local = {}
        /\ engines = {}
        /\ last = NoCall
        /\ ncalls = 0
        /\ recognized = [k \in Images |-> ""]
        /\ ocr_results = <<>>
        /\ markdown_path = Only1(Destination, NoPath)
        /\ nTables = [j \in Jobs |-> 0]
        /\ nTexts = Only1(n, 0)
        /\ nImages = [j \in Jobs |-> 0]
        /\ clean = [j \in Jobs |-> TRUE]
        /\ ocr = FALSE
        /\ keep_markdown = FALSE
        /\ cleanup_temp = FALSE
        /\ max_concurrent = 1
        /\ semaphore = 0
        /\ img = OcrTasks(0)
        /\ NoExtraction
        /\ input_file = [fn |-> fn, previous |-> previous, old |-> old, stale |-> stale]
        /\ temp_file = NoPath
        /\ temp_md_file = NoPath
        /\ failed = ""
        /\ raised = FALSE

NextSave ==
    \/ SV_Request(1)
    \/ SV_Open(1)
    \/ SV_Write(1)
    \/ SV_Rename(1)

SpecSave == InitSave /\ [][NextSave]_vars

\* ------------------------------------------------------------ properties
Standalone(j) == entry[j] \in {"process_markdown_file", "chunk_document"}
Streams(j) == entry[j] \in {"process_markdown_file", "process", "process_batch"}

FileOf(p) == IF p \in DOMAIN fs THEN fs[p] ELSE <<>>

\* The table and text chunks of document j in its output file, in file order.
Emitted(j) ==
    LET Mine(t) == t.k = "chunk" /\ t.d = j /\ t.ctype # "image_ocr"
    IN SelectSeq(FileOf(outPath[j]), Mine)

Gapless(cs) == \A k \in 1..Len(cs) : cs[k].idx = k - 1

\* C1: the Index values of the chunks a document's chunking has emitted (to
\* the output file, and into chunk_document's list), in emission order, are
\* 0, 1, ..., n-1, however many items were skipped or raised.
C1_IndexGapless ==
    \A j \in Jobs : Gapless(Emitted(j)) /\ Gapless(chunks[j])

\* A finished run of process_markdown_file in which a table raised, a text
\* chunk was skipped and two chunks were emitted.
C1_Witness ==
    /\ entry[1] = "process_markdown_file" /\ pc[1] = "done"
    /\ warnings[1] >= 1 /\ skips[1] >= 1
    /\ Len(Emitted(1)) >= 2 /\ ret[1] = Len(Emitted(1))

\* C2: when process_markdown_file has returned without reporting an error,
\* the output file is one JSON object whose `chunks` member is an array:
\* commas only between two chunk objects, closing brackets written.
C2_OutputIsValidJson ==
    \A j \in Jobs :
        (entry[j] = "process_markdown_file" /\ pc[j] = "done" /\ errors[j] = 0)
            => IsJsonObject(FileOf(outPath[j]))


\* ---- the batch
InFlight(j) == pc[j] \notin {"idle", "new", "waiting", "done"}
InFlightJobs == {j \in Jobs : InFlight(j)}

\* C3: in a batch run with max_concurrent = k, the documents between the
\* gate's acquire and release are never more than k, and free permits plus
\* in-flight documents always make k.
C3_ConcurrencyBound ==
    /\ Cardinality(InFlightJobs) <= max_concurrent
    /\ semaphore >= 0
    /\ semaphore + Cardinality(InFlightJobs) = max_concurrent

\* The gate is full (two documents in flight) and a task is queued behind it.
C3_Witness ==
    /\ max_concurrent = 2
    /\ Cardinality(InFlightJobs) = 2
    /\ waiters # <<>>

\* A source that process turns into a non-empty output when run alone.
SucceedsAlone(sr) == sr.readable /\ sr.converts

\* C11: the list a batch call returns has one outcome per input source, the
\* k-th outcome being that of the k-th source, whatever order the jobs ended in.
C11_OneOutcomePerInputInOrder ==
    results # <<>> =>
        /\ Len(results) = NumSources
        /\ \A k \in 1..NumSources :
              /\ results[k].input_source = k
              /\ results[k].success = result[k].success

\* A batch returned after its jobs ended in another order than the input's,
\* some failed and some not.
C11_Witness ==
    /\ results # <<>>
    /\ completed # [k \in 1..NumSources |-> k]
    /\ \E j, k \in Jobs : results[j].success /\ ~results[k].success

\* C12: a job is never admitted through the gate before a job submitted
\* earlier: whenever a job is past the gate, no earlier job of the batch is
\* still before it.
C12_FifoAdmission ==
    \A j1, j2 \in Jobs :
        (j1 < j2 /\ pc[j2] \notin {"idle", "new", "waiting"})
            => pc[j1] \notin {"new", "waiting"}

\* With one slot, the first job suspended holding it and two jobs queued; the
\* first has ended, the second was handed the slot, the third still waits.
C12_Witness ==
    /\ max_concurrent = 1
    /\ src[1].ext = "md"
    /\ pc[1] = "done" /\ InFlight(2) /\ pc[3] = "waiting"

\* The chunk objects of the job's output file, in file order.
Output(j) == ChunksOf(FileOf(outPath[j]))

Rank(ctype) == CASE ctype = "table" -> 0 [] ctype = "text" -> 1 [] OTHER -> 2

\* C13: in the final output of process_markdown_file / process the table
\* chunks come first, then the text chunks, then the image_ocr chunks, and
\* within each kind the chunks are in the order of their source items.
C13_TablesTextOcrOrder ==
    \A j \in Jobs :
        (entry[j] \in {"process_markdown_file", "process"} /\ pc[j] = "done")
            => \A a, b \in 1..Len(Output(j)) :
                  a < b =>
                     LET x == Output(j)[a]
                         y == Output(j)[b]
                     IN /\ Rank(x.ctype) <= Rank(y.ctype)
                        /\ x.ctype = y.ctype => x.n < y.n

\* An output with a table, a text chunk and the chunks of two images.
C13_Witness ==
    /\ entry[1] = "process" /\ pc[1] = "done" /\ result[1].success
    /\ result[1].num_ocr_chunks = 2
    /\ \E a, b \in 1..Len(Output(1)) :
          Output(1)[a].ctype = "table" /\ Output(1)[b].ctype = "text"

\* C14: in the final output of process the chunk at position k of the chunks
\* array carries Index k, the image_ocr chunks included.
C14_OcrChunksContinueIndex ==
    \A j \in Jobs :
        (entry[j] = "process" /\ result[j].done /\ result[j].success)
            => \A k \in 1..Len(Output(j)) : Output(j)[k].idx = k - 1

\* json.load then json.dump of a text gives back a text with the same name,
\* id and chunks.
RoundTrips(s) ==
    IsJsonObject(s) =>
        LET t == JsonDump(JsonLoad(s))
        IN IsJsonObject(t) /\ t[2] = s[2] /\ t[3] = s[3] /\ ChunksOf(t) = ChunksOf(s)

\* The step of job j from pc value `from` to pc value `to`.
Step(j, from, to) == pc[j] = from /\ pc'[j] = to

\* What the OCR step holds after its read and its appends, against the file
\* it read: the same name and id, the file's chunks, then only OCR chunks.
LoadedAndAppended(j) ==
    LET old == fs[outPath[j]]
        new == data'[j]
        n   == Len(ChunksOf(old))
    IN /\ new.name = old[2] /\ new.id = old[3]
       /\ Len(new.chunks) = n + new.added /\ new.added >= 1
       /\ SubSeq(new.chunks, 1, n) = ChunksOf(old)
       /\ \A k \in (n + 1)..Len(new.chunks) : new.chunks[k].ctype = "image_ocr"

\* What the OCR step leaves in the file, against what it held.
Rewritten(j) ==
    LET new == fs'[outPath[j]]
    IN /\ IsJsonObject(new)
       /\ new[2] = data[j].name /\ new[3] = data[j].id
       /\ ChunksOf(new) = data[j].chunks

C16_ConverterNeverShared ==
    /\ last.converter # NoConverter => last.converter.by = last.thread
    /\ \A r \in converter_local : r.slot = <<r.converter.module, r.converter.by>>
    /\ \A r1, r2 \in converter_local : r1.converter = r2.converter => r1.slot = r2.slot
    /\ \A e \in engines : e.n = 1

\* A thread converts again with the converter it built earlier, while another
\* thread has a converter of its own.
C16_Witness ==
    /\ last.converter # NoConverter /\ ~last.built
    /\ \E e \in engines : e.module = last.converter.module /\ e.by # last.thread

\* C17: no conversion and no OCR recognition runs on the thread of the event
\* loop.
C17_NoEngineWorkOnLoop == \A r \in work : r.thread # LoopThread

\* C18: the converter a call converts with was built with the settings
\* handed to that call.
C18_ConfigForwarded ==
    last.converter # NoConverter => last.converter.cfg = last.cfg

\* C19: convert_single_sync and convert_single_async called for a source
\* whose extension is missing or not a supported format return None, without a
\* converter being built or used.
C19_UnsupportedRejected ==
    (/\ last.fn \in {"convert_single_sync", "convert_single_async"}
     /\ last.ext \notin SUPPORTED_FORMATS)
        => /\ last.outcome = "None"
           /\ last.converter = NoConverter
           /\ ~last.built

\* An unsupported source was rejected by each of the two functions' kind of
\* call, in a process that has built a converter before.
C19_Witness ==
    /\ last.fn = "convert_single_async" /\ last.ext \in {"md", ""}
    /\ last.outcome = "None"
    /\ engines # {}

\* C20: for a markdown input process never enters the conversion stage, hands
\* the input file itself to process_markdown_file, and leaves the input file
\* in place with its content, whatever keep_markdown is.
C20_MarkdownShortCircuit ==
    \A j \in Jobs :
        (entry[j] = "process" /\ src[j].ext = "md")
            => /\ pc[j] \notin {"converting", "lockwait", "saving"}
               /\ \A r \in work : r.job = j => r.kind # "convert"
               /\ markdown_path[j] \in {NoPath, InPath(src[j])}
               /\ (result[j].done /\ src[j].readable) => ret[j] >= 0
               /\ src[j].readable =>
                     /\ Exists(InPath(src[j]))
                     /\ fs[InPath(src[j])] = MdText(src[j].stem)

\* A markdown input was chunked with keep_markdown off and the call ended.
C20_Witness ==
    /\ entry[1] = "process" /\ src[1].ext = "md" /\ ~keep_markdown
    /\ result[1].done /\ result[1].success /\ result[1].num_chunks >= 1
    /\ Exists(InPath(src[1]))

\* C21: when process succeeds on a non-markdown source with keep_markdown set,
\* the result's markdown_path names a file that exists once process has
\* returned; without keep_markdown the intermediate markdown file is gone
\* and the result's markdown_path is None.
C21_KeepMarkdownRetains ==
    \A j \in Jobs :
        (entry[j] = "process" /\ result[j].done /\ result[j].success
            /\ src[j].ext # "md") =>
            IF keep_markdown
            THEN /\ result[j].markdown_path = markdown_path[j]
                 /\ Exists(result[j].markdown_path)
            ELSE /\ result[j].markdown_path = NoPath
                 /\ ~Exists(markdown_path[j])

\* C22: when the caller supplied temp_dir (cleanup_temp is false), no call of
\* process, made alone or by process_batch, successful or failed, removes the
\* directory.
C22_SuppliedTempDirKept == ~cleanup_temp => temp_dir

\* A batch over a supplied directory has ended with a failed job and a
\* successful one.
C22_Witness ==
    /\ ~cleanup_temp /\ temp_dir
    /\ \A j \in Jobs : entry[j] = "process_batch" /\ result[j].done
    /\ \E j, k \in Jobs : result[j].success /\ ~result[k].success

\* C23: in extract_and_ocr_images called with max_concurrent = m, at most m
\* image tasks hold a permit, so at most m images are being decoded and
\* recognized at any moment.
C23_OcrConcurrencyBound ==
    Cardinality({k \in Images : img[k] \in {"admitted", "running", "recognized"}})
        <= max_concurrent

\* As many images as permits are being recognized, and one more task waits.
C23_Witness ==
    /\ Cardinality({k \in Images : img[k] = "running"}) = max_concurrent
    /\ waiters # <<>>

\* C24: an image whose recognition fails or gives no text is dropped alone:
\* the list returned holds every image that gave text, in the order the
\* images appear, each named by its 1-based position among all the images.
C24_OcrDropsOnlyFailedImage ==
    (entry[1] = "extract_and_ocr_images" /\ pc[1] = "done") =>
        /\ \A k \in Images :
              recognized[k] = "text" <=> \E p \in DOMAIN ocr_results : ocr_results[p] = k
        /\ \A p, q \in DOMAIN ocr_results : p < q => ocr_results[p] < ocr_results[q]

\* The first image failed, the last gave text and is returned as image
\* nImages.
C24_Witness ==
    /\ entry[1] = "extract_and_ocr_images" /\ pc[1] = "done"
    /\ nImages[1] >= 2
    /\ recognized[1] \in {"failed", "empty"}
    /\ ocr_results = <<nImages[1]>>

\* The call of the title extraction went past its early returns: there is a
\* text, a grid and an anchor for the table asked for.
Anchored ==
    /\ extracted.called
    /\ ~NoContent(markdown_content) /\ table_data # <<>>
    /\ table_idx[1] < Len(extracted.table_starts)

Anchor == extracted.table_starts[table_idx[1] + 1]

NonEmpty(p) == strip(markdown_content[p]) # <<>>

\* The look-back window as the specification words it: the 4 nearest
\* non-empty lines before the anchor.
Window ==
    {p \in 1..(Anchor - 1) :
        /\ NonEmpty(p)
        /\ Cardinality({q \in p..(Anchor - 1) : NonEmpty(q)}) <= 4}

IsHeading(p) == startswith(strip(markdown_content[p]), <<"#", "#">>)
HeadingText(p) == strip(lstrip(strip(markdown_content[p]), "#"))
IsPlainTitle(p) == IsTitleCandidate(strip(markdown_content[p]))
IsSubtitle(p) ==
    /\ startswith(strip(markdown_content[p]), <<"(">>)
    /\ endswith(strip(markdown_content[p]), ")")

Nearest(S) == CHOOSE p \in S : \A q \in S : q <= p
First(S) == CHOOSE p \in S : \A q \in S : p <= q

\* C25: when a line starting with `##` lies in the look-back window, the
\* title is that line without its `#` marks and surrounding blanks, whatever
\* plain line lies nearer, and the subtitle is the first line between the
\* heading and the anchor that starts with `(` and ends with `)`, else None.
C25_HeadingGivesTitle ==
    (Anchored /\ \E p \in Window : IsHeading(p)) =>
        LET h == Nearest({p \in Window : IsHeading(p)})
            subs == {p \in (h + 1)..(Anchor - 1) : IsSubtitle(p)}
        IN /\ extracted.table_title = HeadingText(h)
           /\ extracted.subtitle =
                 IF subs = {} THEN None ELSE strip(markdown_content[First(subs)])

\* C26: the search looks at the 4 nearest non-empty lines before the anchor,
\* blank lines not counting: a heading or a plain title among them gives a
\* title, and no line beyond them ever does.
C26_WindowOfFourNonEmptyLines ==
    Anchored =>
        /\ (\E p \in Window : IsHeading(p) \/ IsPlainTitle(p)) =>
               extracted.table_title # None
        /\ extracted.table_title # None =>
               \E p \in Window :
                  \/ IsHeading(p) /\ extracted.table_title = HeadingText(p)
                  \/ extracted.table_title = strip(markdown_content[p])

\* C27: with no `##` line in the look-back window the title is the nearest
\* line of the window that does not start with `|` or `*` and is more than 10
\* and less than 150 characters long, None if there is none; a grid of two
\* rows has one header row.
C27_PlainLineGivesTitle ==
    (Anchored /\ ~\E p \in Window : IsHeading(p)) =>
        LET cands == {p \in Window : IsPlainTitle(p)}
        IN /\ extracted.table_title =
                 IF cands = {} THEN None ELSE strip(markdown_content[Nearest(cands)])
           /\ Len(table_data) = 2 => extracted.num_header_rows = 1

\* C28: the header row count depends on the grid alone, whatever the text
\* and the table index: 1 for a grid of fewer than 3 rows or a second row
\* without a period token, 2 when the second row has one and the third has
\* none, 3 when both have one.
C28_HeaderRowsFromGridAlone ==
    extracted.called =>
        extracted.num_header_rows =
            IF Len(table_data) < 3 \/ ~HasIndicator(table_data[2]) THEN 1
            ELSE IF ~HasIndicator(table_data[3]) THEN 2
            ELSE 3

\* C29: the title returned is None or a non-empty string, never "".
C29_TitleNeverEmptyString ==
    extracted.called => (extracted.table_title = None \/ extracted.table_title # <<>>)

\* A separator row as the specification words it: a line made only of the
\* characters `-`, `|`, `:` and space.
OnlySeparatorChars(p) ==
    /\ NonEmpty(p)
    /\ \A k \in DOMAIN markdown_content[p] :
          markdown_content[p][k].c \in {"-", "|", ":", " "}

StartsWithPipe(p) ==
    startswith(strip(markdown_content[p]), <<"|">>) /\ ~OnlySeparatorChars(p)

\* The first lines of the maximal runs of lines starting with `|`, a
\* separator row neither starting nor ending a run.
RunStarts ==
    {p \in DOMAIN markdown_content :
        /\ StartsWithPipe(p)
        /\ \A q \in 1..(p - 1) :
              StartsWithPipe(q) => \E r \in (q + 1)..(p - 1) :
                                      ~StartsWithPipe(r) /\ ~OnlySeparatorChars(r)}

\* C30: the anchors are the first lines of the runs of table lines, in text
\* order, separator rows set aside; a table index beyond the runs gives no
\* title.
C30_AnchorsAreRunStarts ==
    (extracted.called /\ ~NoContent(markdown_content) /\ table_data # <<>>) =>
        /\ {extracted.table_starts[k] : k \in DOMAIN extracted.table_starts} = RunStarts
        /\ \A k, l \in DOMAIN extracted.table_starts :
              k < l => extracted.table_starts[k] < extracted.table_starts[l]
        /\ table_idx[1] >= Cardinality(RunStarts) => extracted.table_title = None

\* C31: every chunk emitted, table or text, has a section_title of at most
\* 100 characters, and a text chunk with no recoverable title carries
\* "Unknown Section".
C31_SectionTitleCapped ==
    \A k \in DOMAIN section_titles :
        /\ Length(section_titles[k].section_title) <= 100
        /\ (section_titles[k].content_type = "text" /\ ~Truthy(section_titles[k].recovered))
               => section_titles[k].section_title = UnknownSection

\* C32: chunk_json_directly on a JSON array of n elements gives exactly n
\* chunks, the i-th holding the serialization of the i-th element with
\* content_type json_array_item and chunk_index i, and builds or calls no
\* converter; a JSON object gives one chunk, json_object, chunk_index 0.
C32_JsonArrayOneChunkPerItem ==
    (/\ entry[1] = "chunk_document" /\ pc[1] = "done"
     /\ input_file.ext = "json" /\ input_file.found /\ IsJson(input_file.text)
     /\ failed = "")
    => LET v == input_file.text.value
       IN /\ engines = {} /\ last = NoCall
          /\ v.kind = "array" =>
                /\ ret[1] = Len(v.items)
                /\ Len(chunks[1]) = Len(v.items)
                /\ ChunksOf(fs[outPath[1]]) = chunks[1]
                /\ \A k \in 1..Len(v.items) :
                      /\ chunks[1][k].content = JsonText("indented", v.items[k])
                      /\ chunks[1][k].ctype = "json_array_item"
                      /\ chunks[1][k].idx = k - 1
          /\ v.kind = "object" =>
                /\ ret[1] = 1
                /\ Len(chunks[1]) = 1
                /\ ChunksOf(fs[outPath[1]]) = chunks[1]
                /\ chunks[1][1].ctype = "json_object"
                /\ chunks[1][1].idx = 0

C32_Witness ==
    /\ pc[1] = "done" /\ failed = "" /\ input_file.ext = "json"
    /\ input_file.text.layout = "compact"
    /\ input_file.text.value.kind = "array"
    /\ Len(input_file.text.value.items) = MaxItems
    /\ input_file.text.value.items[1] # input_file.text.value.items[2]
    /\ ret[1] = MaxItems

\* C38: chunk_json_directly on a file that is not valid JSON falls back to the
\* raw content and produces a single chunk holding it, not 0 chunks.
C38_InvalidJsonGivesRawChunk ==
    (/\ entry[1] = "chunk_document" /\ pc[1] = "done"
     /\ input_file.ext = "json" /\ input_file.found /\ ~IsJson(input_file.text)
     /\ failed = "")
    => /\ ret[1] = 1
       /\ Len(chunks[1]) = 1
       /\ chunks[1][1].content = input_file.text

\* C39: when chunk_document returns or raises, every temporary file it
\* created (the downloaded copy, the .md copy of a .txt input) is deleted.
C39_TempFilesDeleted ==
    (entry[1] = "chunk_document" /\ pc[1] = "done")
        => (TempFile \notin DOMAIN fs /\ TempMdFile \notin DOMAIN fs)

\* C33: in a batch run by one DocumentPipeline, the title and header-row
\* count of a table emitted for a document come from that document's own
\* markdown text, never from a sibling's.
C33_TitleFromOwnMarkdown ==
    [][\A j \in Jobs :
          (/\ pc[j] = "pmf_body"
           /\ table_idx'[j] = table_idx[j] + 1
           /\ Index'[j] = Index[j] + 1)
          => extracted' = ExtractFor(documents[j], table_idx[j], j)]_vars

\* C34: two conversions running at the same time never obtain the same
\* markdown path from get_unique_filename, and while a job is chunking its
\* intermediate markdown file the file exists and holds that job's text.
C34_UniqueMarkdownPaths ==
    /\ \A j, k \in Jobs :
          (/\ j # k /\ InFlight(j) /\ InFlight(k)
           /\ src[j].ext # "md" /\ src[k].ext # "md"
           /\ markdown_path[j] # NoPath /\ markdown_path[k] # NoPath)
          => markdown_path[j] # markdown_path[k]
    /\ \A j \in Jobs :
          (src[j].ext # "md" /\ pc[j] \in {"pmf_read", "pmf_open", "pmf_header", "pmf_body"})
          => (Exists(markdown_path[j]) /\ fs[markdown_path[j]] = MdText(j))

\* C35: batch_convert_sync returns one entry per input source, the i-th entry
\* belonging to the i-th input, whether the input is invalid, a .txt file, or
\* the engine's batch call raised with raises_on_error=False.
C35_OneEntryPerInputInOrder ==
    (entry[1] = "batch_convert_sync" /\ pc[1] = "done" /\ ~raised)
        => /\ Len(results) = NumSources
           /\ \A k \in 1..Len(results) : results[k].of = k

\* C36: a batch call whose jobs each terminate returns the full result set:
\* every queued job is admitted in the end, and at the return every permit of
\* the semaphore is free and no task is queued.
C36_BatchTerminates ==
    <>(/\ Len(results) = NumSources
       /\ \A j \in Jobs : pc[j] = "done" /\ result[j].done
       /\ semaphore = max_concurrent
       /\ waiters = <<>>)

C36_Witness ==
    /\ Len(results) = NumSources
    /\ max_concurrent < NumSources
    /\ semaphore = max_concurrent
    /\ \E j \in Jobs : ~result[j].success

\* C37: when save_markdown_async or download_file_async fails at any step
\* the exception leaves the call, its temp file is gone and the destination
\* holds what it held before (or is still absent); when it succeeds the
\* destination holds exactly the new content and no temp file remains.
C37_SaveIsAllOrNothing ==
    (entry[1] \in {"save_markdown_async", "download_file_async"} /\ pc[1] = "done")
        => /\ temp_file # NoPath => ~Exists(temp_file)
           /\ IF failed # ""
              THEN /\ raised
                   /\ Exists(Destination) = input_file.previous
                   /\ input_file.previous => fs[Destination] = input_file.old
              ELSE /\ ~raised
                   /\ Exists(Destination)
                   /\ fs[Destination] = NewContent(nTexts[1])

C37_Witness ==
    /\ entry[1] = "download_file_async" /\ pc[1] = "done"
    /\ failed = "rename" /\ raised
    /\ input_file.previous /\ input_file.stale
    /\ nTexts[1] = MaxTexts
    /\ fs[Destination] = input_file.old

\* C4: in process_batch every source that succeeds when processed alone is
\* reported success=True with a non-zero chunk count, whatever its siblings do.
C4_FailureIsolation ==
    \A j \in Jobs :
        (entry[j] = "process_batch" /\ result[j].done /\ SucceedsAlone(src[j]))
            => result[j].success /\ result[j].num_chunks > 0

\* The job's intermediate markdown file is in the scratch directory and the
\* job has yet to read it.
NeedsMarkdown(j) ==
    /\ src[j].ext # "md"
    /\ pc[j] \in {"pmf_read", "pmf_open", "pmf_header", "pmf_body", "chunked", "ocr"}

\* C5: while a job of the instance is in flight, the scratch directory the
\* instance created exists, and so does the job's intermediate file in it.
C5_ScratchOutlivesJobs ==
    \A j \in Jobs :
        (InProcess(j) /\ cleanup_temp /\ InFlight(j))
            => /\ temp_dir
               /\ NeedsMarkdown(j) => Exists(markdown_path[j])

\* C6: a reader of an output path sees no file or a complete document (the
\* previous version or the new one), never a part of one.
C6_NoPartialFile ==
    \A j \in Jobs :
        (Streams(j) /\ Exists(outPath[j])) => IsJsonObject(fs[outPath[j]])

\* C7: no two jobs of a batch hold the same output path open for writing at
\* the same time.
C7_OneWriterPerPath ==
    \A j, k \in Jobs :
        (j # k /\ isOpen[j] /\ isOpen[k]) => outPath[j] # outPath[k]

\* C8: from its read to its completed rewrite the OCR append holds the lock
\* of the output path, and the path never shows less than a whole document.
C8_LockedAtomicRewrite ==
    \A j \in Jobs :
        pc[j] = "ocr_write"
            => /\ outPath[j] \in file_locks
               /\ IsJsonObject(FileOf(outPath[j]))

\* The output of the chunking call is closed: the closing brackets are the
\* last thing in the file.
Closed(j) ==
    LET s == FileOf(outPath[j])
    IN IF entry[j] = "chunk_document" THEN IsJsonArray(s)
       ELSE Len(s) >= 2 /\ SubSeq(s, Len(s) - 1, Len(s)) = Footer(j)

\* The document was converted and its chunking begun, so that whatever
\* failed afterwards failed on one chunk (in chunk_document: in the body of
\* the loop, the chunk iterator itself did not fail).
ChunkingBegun(j) ==
    IF entry[j] = "chunk_document" THEN errors[j] = 0 ELSE pos[j] >= Len(Header(j))

\* C9: a failure on one chunk skips that chunk only: every item of the
\* document was visited, the output is closed and the count returned is the
\* number of chunks emitted.
C9_ChunkFailureSkipsOneChunk ==
    \A j \in Jobs :
        (Standalone(j) /\ pc[j] = "done" /\ ChunkingBegun(j))
            => /\ table_idx[j] = nTables[j] /\ i[j] = nTexts[j]
               /\ Closed(j)
               /\ ret[j] = Len(Emitted(j))

\* C10: process reports success only for a job whose chunking reported no
\* error and whose output file is completely written.
C10_FailedChunkingFailsJob ==
    \A j \in Jobs :
        (InProcess(j) /\ result[j].done /\ result[j].success)
            => /\ errors[j] = 0
               /\ IsJsonObject(FileOf(outPath[j]))

=============================================================================
